--------------------------- MODULE AutomationProofs ---------------------------
(****************************************************************************)
(* Theorems about Automation, for any clients, devices, scenarios and sizes *)
(* of the buffers.                                                          *)
(****************************************************************************)
EXTENDS Automation, SequenceTheorems, TLAPS

Reading == {"SENSOR_DATA", "PONG"}
ClientMsg == [type : Reading \cup {"REGISTER_DEVICE"}, key : Key, n : 0..MaxReports]
InfoMsg == [type : {"IPC_RESP_DEVICE_INFO"}, key : Key \cup {Junk}, from : Client, n : {0}]
PythonMsg == InfoMsg \cup [type : Reading, key : Key, from : Client, n : 0..MaxReports]
Operation == {"REQ_ACTUATOR_OPERATION", "UNEVEN"}
RequestMsg == [type : {"IPC_REQ_ALL_DEVICE_INFO"}, key : {None}, from : {None}]
                \cup [type : Operation, key : Key, from : Client]

(* The types of the messages on their way, and of what is kept of them; a   *)
(* session enters its devices one by one.                                   *)
Shapes ==
  /\ told \in [Client -> Nat]
  /\ toServer \in [Client -> Seq(ClientMsg)]
  /\ entering \in [Client -> Key \cup {None}]
  /\ informing \in [Client -> Key \cup {None}]
  /\ \A c \in Client : entering[c] # None => informing[c] = None
  /\ toPython \in Seq(PythonMsg) /\ fromPython \in Seq(RequestMsg)
  /\ listing \subseteq InfoMsg /\ \A m \in listing : m.key \in Key
  /\ pending \subseteq [scenario : Scenario, actuator : [key : Key, kind : Kinds]]
  /\ \A p \in pending : Known(p.actuator.key)

(* Whoever is said to own a device, in the repository, in a message or by   *)
(* Python, has it in its list.                                              *)
SentByOwner ==
  \A c \in Client : \A i \in DOMAIN toServer[c] : toServer[c][i].key \in Has(c)
KeptOfOwner ==
  /\ \A c \in Client : /\ entering[c] # None => entering[c] \in Has(c)
                       /\ informing[c] # None => informing[c] \in Has(c)
  /\ \A k \in Key : /\ repository[k] # None => k \in Has(repository[k])
                    /\ Known(k) => k \in Has(deviceList[k])
                    /\ sensor_data[k].from # None => k \in Has(sensor_data[k].from)
  /\ \A m \in listing : m.key \in Has(m.from)
ToldOfOwner ==
  \A i \in DOMAIN toPython : toPython[i].key \in Key => toPython[i].key \in Has(toPython[i].from)
Owners == SentByOwner /\ KeptOfOwner /\ ToldOfOwner /\ NamesOwner

(* What Python knows or will hear of a device; and what a session has still *)
(* to tell it, which its client has announced before any reading.           *)
Heard(k) == Known(k) \/ Known(Junk) \/ \E j \in DOMAIN toPython : Tells(j, k)
Announces(m, k) == m.type = "REGISTER_DEVICE" /\ m.key = k
Held(c, k) == entering[c] = k \/ informing[c] = k
Said(c, k, n) == Heard(k) \/ Held(c, k) \/ \E j \in 1..n : Announces(toServer[c][j], k)
Relies(c, k, n) ==
  \/ /\ c \in connected /\ n = Len(toServer[c])
     /\ \E i \in DOMAIN devices[c] : i <= told[c] /\ devices[c][i] = k
  \/ /\ n + 1 \in DOMAIN toServer[c]
     /\ toServer[c][n+1].type \in Reading /\ toServer[c][n+1].key = k
SaidFirst(c) == \A k \in Key, n \in Nat : Relies(c, k, n) => Said(c, k, n)
Announced == up => \A c \in Client : SaidFirst(c)

(* Readings of one client are in the order it sent them, wherever they are: *)
(* none in a buffer overtakes another, what is before Python is no later    *)
(* than what is before the server, what Python keeps no later than both.    *)
NoLater(n, c) ==
  /\ n <= reports
  /\ \A j \in DOMAIN toServer[c] : toServer[c][j].type \in Reading => n <= toServer[c][j].n
ServerOrdered ==
  \A c \in Client : \A i, j \in DOMAIN toServer[c] :
    toServer[c][i].type \in Reading =>
      /\ toServer[c][i].n <= reports
      /\ i < j /\ toServer[c][j].type \in Reading => toServer[c][i].n <= toServer[c][j].n
PythonOrdered ==
  \A i \in DOMAIN toPython : toPython[i].type \in Reading =>
    /\ NoLater(toPython[i].n, toPython[i].from)
    /\ \A j \in DOMAIN toPython :
         i < j /\ toPython[j].type \in Reading /\ toPython[j].from = toPython[i].from
           => toPython[i].n <= toPython[j].n
KeptOrdered ==
  \A k \in Key : sensor_data[k].from # None =>
    /\ NoLater(sensor_data[k].n, sensor_data[k].from)
    /\ \A j \in DOMAIN toPython :
         toPython[j].type \in Reading /\ toPython[j].from = sensor_data[k].from
           => sensor_data[k].n <= toPython[j].n
Ordered == ServerOrdered /\ PythonOrdered /\ KeptOrdered

(* Of what is in the repository Python has heard, or the session that       *)
(* entered it last has still to tell.  While no two sessions have inserted  *)
(* at once, what Python has heard of is in the repository, and a device is  *)
(* freed while in use only if two clients have one of its key.              *)
ToldOf(k) == \E j \in DOMAIN toPython :
               toPython[j].type = "IPC_RESP_DEVICE_INFO" /\ toPython[j].key = k
Mentioned(k) == \/ Known(k) \/ ToldOf(k)
                \/ \E c \in Client : informing[c] = k
                \/ \E m \in listing : m.key = k
Freed == ~up \/ Known(Junk) \/ ToldOf(Junk)
Agreeing ==
  /\ ~crossed => \A k \in Key : Mentioned(k) => repository[k] # None
  /\ up => \A k \in Key :
       repository[k] # None => Known(k) \/ ToldOf(k) \/ informing[repository[k]] = k
  /\ Freed => crossed \/ \E k \in Key : Shared(k)

-----------------------------------------------------------------------------
(* Sequences. *)

(* A message put at the end of a buffer. *)
LEMMA Appended ==
  ASSUME NEW S, NEW b \in Seq(S), NEW x \in S
  PROVE  /\ Append(b, x) \in Seq(S) /\ Len(b) \in Nat /\ Len(Append(b, x)) = Len(b) + 1
         /\ DOMAIN b = 1..Len(b) /\ DOMAIN Append(b, x) = 1..Len(b)+1
         /\ \A i \in DOMAIN b : i \in DOMAIN Append(b, x) /\ Append(b, x)[i] = b[i]
         /\ Append(b, x)[Len(b)+1] = x
         /\ \A i \in DOMAIN Append(b, x) : i \in DOMAIN b \/ i = Len(b) + 1
BY AppendProperties, LenProperties

(* A message taken from the front of a buffer. *)
LEMMA Taken ==
  ASSUME NEW S, NEW b \in Seq(S), b # <<>>
  PROVE  /\ Tail(b) \in Seq(S) /\ Head(b) = b[1] /\ Head(b) \in S /\ 1 \in DOMAIN b
         /\ Len(b) \in Nat /\ Len(Tail(b)) = Len(b) - 1
         /\ DOMAIN b = 1..Len(b) /\ DOMAIN Tail(b) = 1..Len(b)-1
         /\ \A i \in DOMAIN Tail(b) : i + 1 \in DOMAIN b /\ Tail(b)[i] = b[i+1]
         /\ \A i \in DOMAIN b : i = 1 \/ (i - 1 \in DOMAIN Tail(b) /\ Tail(b)[i-1] = b[i])
BY HeadTailProperties, EmptySeq, LenProperties

-----------------------------------------------------------------------------
(* Types. *)

TypeInv == TypeOK /\ Shapes

(* The keys of messages on their way to the server. *)
LEMMA ServerKeys ==
  ASSUME Shapes'
  PROVE  \A c \in Client : \A i \in DOMAIN toServer'[c] : toServer'[c][i].key \in Key
<1> SUFFICES ASSUME NEW c \in Client, NEW i \in DOMAIN toServer'[c]
             PROVE  toServer'[c][i].key \in Key
  OBVIOUS
<1>1. toServer'[c] \in Seq(ClientMsg)
  BY DEF Shapes
<1>2. toServer'[c][i] \in ClientMsg
  BY <1>1, ElementOfSeq, LenProperties
<1> QED BY <1>2 DEF ClientMsg

(* What a client tells the server next is about one of its devices.         *)
LEMMA NextIsOwn ==
  ASSUME TypeInv, NEW c \in Client, devices[c] # <<>>
  PROVE  NextDevice(c) \in Key /\ NextDevice(c) \in Has(c)
<1>1. devices[c] \in Seq(Key) /\ told[c] \in Nat
  BY ConfigAssumption DEF TypeInv, TypeOK
<1>2. Len(devices[c]) \in Nat \ {0} /\ DOMAIN devices[c] = 1..Len(devices[c])
  BY <1>1, EmptySeq, LenProperties
<1>3. (told[c] % Len(devices[c])) + 1 \in DOMAIN devices[c]
  BY <1>1, <1>2
<1> QED BY <1>1, <1>2, <1>3, ElementOfSeq DEF NextDevice, Has, Range

(* A client's message has its type, and is about a device of its own: its   *)
(* announcement on the first round, and then a reading.                     *)
LEMMA Speaks ==
  ASSUME TypeInv, NEW c \in Client, Announce(c) \/ Report(c)
  PROVE  \E m \in ClientMsg :
           /\ m.key = NextDevice(c) /\ m.key \in Has(c)
           /\ toServer' = [toServer EXCEPT ![c] = Append(toServer[c], m)]
           /\ told' = [told EXCEPT ![c] = @ + 1]
           /\ Announce(c) => m.type = "REGISTER_DEVICE" /\ reports' = reports
           /\ Report(c) => m.type \in Reading /\ m.n = reports' /\ reports' = reports + 1
<1>1. told[c] \in Nat /\ Len(devices[c]) \in Nat /\ reports \in 0..MaxReports
  BY ConfigAssumption, LenProperties DEF TypeInv, TypeOK
<1>2. CASE Announce(c)
  <2>1. devices[c] # <<>>
    <3>1. told[c] < Len(devices[c])
      BY <1>2 DEF Announce
    <3> QED BY <1>1, <3>1
  <2>2. 0 \in 0..MaxReports
    BY BoundAssumption
  <2>3. Tell(c, "REGISTER_DEVICE", 0) /\ reports' = reports
    BY <1>2 DEF Announce
  <2>4. ~Report(c)
    BY <1>1, <1>2 DEF Announce, Report
  <2> DEFINE m == [type |-> "REGISTER_DEVICE", key |-> NextDevice(c), n |-> 0]
  <2>5. m \in ClientMsg /\ m.key = NextDevice(c) /\ m.key \in Has(c) /\ m.type = "REGISTER_DEVICE"
    BY <2>1, <2>2, NextIsOwn DEF ClientMsg
  <2> QED BY <2>3, <2>4, <2>5 DEF Tell
<1>3. CASE Report(c)
  <2>1. devices[c] # <<>> /\ reports' = reports + 1 /\ reports' \in 0..MaxReports
    BY <1>1, <1>3, BoundAssumption DEF Report
  <2>2. PICK type \in Reading : Tell(c, type, reports')
    BY <1>3 DEF Report, Reading
  <2>3. ~Announce(c)
    BY <1>1, <1>3 DEF Announce, Report
  <2> DEFINE m == [type |-> type, key |-> NextDevice(c), n |-> reports']
  <2>4. m \in ClientMsg /\ m.key = NextDevice(c) /\ m.key \in Has(c) /\ m.type = type /\ m.n = reports'
    BY <2>1, <2>2, NextIsOwn DEF ClientMsg
  <2> QED BY <2>1, <2>2, <2>3, <2>4 DEF Tell
<1> QED BY <1>2, <1>3

(* A message passed on to Python has its type, and there was space for it.  *)
LEMMA ToPythonTypes ==
  ASSUME TypeInv, NEW m \in PythonMsg, ToPython(m)
  PROVE  toPython' \in Seq(PythonMsg) /\ Len(toPython') <= Capacity
BY Appended, CapacityAssumption DEF TypeInv, TypeOK, Shapes, ToPython, Full

(* Python's next message has its type, and leaves space when it is taken.   *)
LEMMA ReceivedTypes ==
  ASSUME TypeInv, toPython # <<>>, Received
  PROVE  toPython' \in Seq(PythonMsg) /\ Len(toPython') <= Capacity /\ Head(toPython) \in PythonMsg
BY Taken, CapacityAssumption DEF TypeInv, TypeOK, Shapes, Received

(* Python's request has its type, and there was space for it. *)
LEMMA FromPythonTypes ==
  ASSUME TypeInv, NEW type, NEW k, NEW c, [type |-> type, key |-> k, from |-> c] \in RequestMsg,
         FromPython(type, k, c)
  PROVE  fromPython' \in Seq(RequestMsg) /\ Len(fromPython') <= Capacity
BY Appended, CapacityAssumption DEF TypeInv, TypeOK, Shapes, FromPython, Full

(* So has an operation of a device in the list. *)
LEMMA AskForTypes ==
  ASSUME TypeInv, NEW k \in Key, Known(k), NEW kind, AskFor(k, kind)
  PROVE  fromPython' \in Seq(RequestMsg) /\ Len(fromPython') <= Capacity
<1>1. PICK type \in Operation : FromPython(type, k, deviceList[k])
  BY DEF AskFor, Operation
<1>2. deviceList[k] \in Client
  BY DEF TypeInv, TypeOK, Known
<1>3. [type |-> type, key |-> k, from |-> deviceList[k]] \in RequestMsg
  BY <1>2 DEF RequestMsg
<1> QED BY <1>1, <1>3, FromPythonTypes

(* The steps of a client keep the types. *)
LEMMA ClientTypes ==
  ASSUME TypeInv, NEW c \in Client, Connect(c) \/ Announce(c) \/ Report(c) \/ Leave(c)
  PROVE  TypeInv'
<1> USE DEF TypeInv, serverVars, insertVars, pythonVars
<1>1. CASE Connect(c)
  <2>1. Shapes'
    BY <1>1 DEF Connect, Shapes, Known
  <2> QED BY <1>1, <2>1, ServerKeys DEF Connect, TypeOK, Shapes
<1>2. ASSUME Announce(c) \/ Report(c)
      PROVE  told' \in [Client -> Nat] /\ toServer' \in [Client -> Seq(ClientMsg)]
  <2>1. PICK m \in ClientMsg : /\ toServer' = [toServer EXCEPT ![c] = Append(toServer[c], m)]
                               /\ told' = [told EXCEPT ![c] = @ + 1]
    BY <1>2, Speaks
  <2>2. Append(toServer[c], m) \in Seq(ClientMsg)
    BY Appended DEF Shapes
  <2> QED BY <2>1, <2>2 DEF Shapes
<1>3. CASE Announce(c) \/ Report(c)
  <2>1. reports' \in 0..MaxReports
    BY <1>3, BoundAssumption DEF Announce, Report, TypeOK
  <2>2. Shapes'
    BY <1>2, <1>3 DEF Announce, Report, Shapes, Known
  <2> QED BY <1>3, <2>1, <2>2, ServerKeys DEF Announce, Report, TypeOK, Shapes
<1>4. CASE Leave(c)
  <2>1. leaves' \in Nat /\ leaves' + web <= MaxExtras
    BY <1>4, BoundAssumption DEF Leave, TypeOK
  <2>2. toServer' \in [Client -> Seq(ClientMsg)]
    <3>1. toServer' = toServer \/ toServer' = [toServer EXCEPT ![c] = <<>>]
      BY <1>4 DEF Leave
    <3>2. <<>> \in Seq(ClientMsg)
      OBVIOUS
    <3> QED BY <3>1, <3>2 DEF Shapes
  <2>3. Shapes'
    BY <1>4, <2>2 DEF Leave, Shapes, Known
  <2> QED BY <1>4, <2>1, <2>3, ServerKeys DEF Leave, TypeOK, Shapes
<1> QED BY <1>1, <1>2, <1>3, <1>4

(* A device that gets its place, or another one, has an owner. *)
LEMMA EnterTypes ==
  ASSUME TypeInv, NEW c \in Client, Enter(c)
  PROVE  repository' \in [Key -> Client \cup {None}] /\ up' \in BOOLEAN
<1>1. entering[c] \in Key /\ repository \in [Key -> Client \cup {None}] /\ up \in BOOLEAN
  BY DEF TypeInv, TypeOK, Shapes, Enter
<1>2. CASE Placed(entering[c], c) /\ UNCHANGED up
  BY <1>1, <1>2 DEF Placed
<1>3. CASE Misplaced(entering[c], c) /\ UNCHANGED up
  <2>1. PICK d \in {c, repository[entering[c]]}, lost \in Key \cup {None} :
          repository' = [j \in Key |-> IF j = lost THEN None
                                       ELSE IF j = entering[c] THEN d ELSE repository[j]]
    BY <1>3 DEF Misplaced
  <2>2. d \in Client \cup {None}
    BY <1>1
  <2> QED BY <1>1, <1>3, <2>1, <2>2
<1>4. CASE up' = FALSE /\ UNCHANGED repository
  BY <1>1, <1>4
<1> QED BY <1>2, <1>3, <1>4 DEF Enter

(* The steps of a session keep the types. *)
LEMMA SessionTypes ==
  ASSUME TypeInv, NEW c \in Client, Session(c)
  PROVE  TypeInv'
<1> USE DEF TypeInv, clientVars, serverVars, insertVars, pythonVars
<1>1. ASSUME toServer[c] # <<>>
      PROVE  Head(toServer[c]) \in ClientMsg /\ Tail(toServer[c]) \in Seq(ClientMsg)
  BY <1>1, Taken DEF Shapes
<1>2. CASE Insert(c)
  <2>1. Head(toServer[c]).key \in Key
    BY <1>1, <1>2 DEF Insert, Got, ClientMsg
  <2>2. toServer' \in [Client -> Seq(ClientMsg)]
    BY <1>1, <1>2 DEF Insert, Got, Handled, Shapes
  <2>3. Shapes' /\ crossed' \in BOOLEAN
    BY <1>2, <2>1, <2>2 DEF Insert, Idle, Shapes, Known
  <2> QED BY <1>2, <2>1, <2>3, ServerKeys DEF Insert, TypeOK, Shapes
<1>6. CASE Enter(c)
  <2>1. entering[c] \in Key
    BY <1>6 DEF Enter, Shapes
  <2>2. repository' \in [Key -> Client \cup {None}] /\ up' \in BOOLEAN
    BY <1>6, EnterTypes
  <2>3. Shapes'
    BY <1>6, <2>1, <2>2 DEF Enter, Shapes, Known
  <2> QED BY <1>6, <2>1, <2>2, <2>3, ServerKeys DEF Enter, TypeOK, Shapes
<1>3. CASE Inform(c)
  <2>1. Info(informing[c], c) \in PythonMsg /\ Info(Junk, c) \in PythonMsg
    BY <1>3 DEF Inform, Info, PythonMsg, InfoMsg, Shapes
  <2>2. toPython' \in Seq(PythonMsg) /\ Len(toPython') <= Capacity /\ up' \in BOOLEAN
    BY <1>3, <2>1, ToPythonTypes DEF Inform, TypeOK, Shapes
  <2>3. Shapes'
    BY <1>3, <2>2 DEF Inform, Shapes, Known
  <2> QED BY <1>3, <2>2, <2>3, ServerKeys DEF Inform, TypeOK, Shapes
<1>4. CASE PassOn(c)
  <2> DEFINE m == Head(toServer[c])
             p == [type |-> m.type, key |-> m.key, from |-> c, n |-> m.n]
  <2>1. m \in ClientMsg /\ m.type \in Reading
    BY <1>1, <1>4 DEF PassOn, Reading
  <2>2. p \in PythonMsg
    BY <2>1 DEF ClientMsg, PythonMsg, Reading
  <2>3. toPython' \in Seq(PythonMsg) /\ Len(toPython') <= Capacity
    BY <1>4, <2>2, ToPythonTypes DEF PassOn, TypeOK, Shapes
  <2>4. toServer' \in [Client -> Seq(ClientMsg)]
    BY <1>1, <1>4 DEF PassOn, Handled, Shapes
  <2>5. Shapes'
    BY <1>4, <2>3, <2>4 DEF PassOn, Shapes, Known
  <2> QED BY <1>4, <2>3, <2>5, ServerKeys DEF PassOn, TypeOK, Shapes
<1>5. CASE HangUp(c)
  <2>1. Shapes'
    BY <1>5 DEF HangUp, Shapes, Known
  <2> QED BY <1>5, <2>1, ServerKeys DEF HangUp, TypeOK, Shapes
<1> QED BY <1>2, <1>3, <1>4, <1>5, <1>6 DEF Session

(* The steps of the IPC thread keep the types. *)
LEMMA IpcTypes == ASSUME TypeInv, Ipc \/ Misread PROVE TypeInv'
<1> USE DEF TypeInv, clientVars, serverVars, insertVars, pythonVars
<1>1. ASSUME fromPython # <<>>
      PROVE  /\ Head(fromPython) \in RequestMsg /\ Tail(fromPython) \in Seq(RequestMsg)
             /\ Len(Tail(fromPython)) <= Capacity
  BY <1>1, Taken, CapacityAssumption DEF TypeOK, Shapes
<1>2. ASSUME ListDevices \/ Misread
      PROVE  \A m \in listing' : m \in InfoMsg /\ m.key \in Key /\ m.from \in Client
  <2>1. CASE UNCHANGED listing
    BY <2>1 DEF TypeOK, Shapes
  <2>2. CASE TakeList
    <3>1. \A m \in listing' : \E k \in Key : repository[k] # None /\ m = Info(k, repository[k])
      BY <2>2 DEF TakeList
    <3> QED BY <3>1 DEF Info, InfoMsg, TypeOK
  <2> QED BY <1>2, <2>1, <2>2 DEF ListDevices, Misread
<1>3. CASE ListDevices \/ Misread
  <2>1. fromPython' \in Seq(RequestMsg) /\ Len(fromPython') <= Capacity
    BY <1>1, <1>3 DEF ListDevices, Misread, Asked, TakenOff
  <2>2. Shapes'
    BY <1>2, <1>3, <2>1 DEF ListDevices, Misread, Shapes, Known
  <2> QED BY <1>2, <1>3, <2>1, <2>2, ServerKeys DEF ListDevices, Misread, TypeOK, Shapes
<1>4. CASE ListOne
  <2>1. PICK m \in listing : ToPython(m) /\ listing' = listing \ {m}
    BY <1>4 DEF ListOne
  <2>2. m \in PythonMsg
    BY DEF Shapes, PythonMsg
  <2>3. toPython' \in Seq(PythonMsg) /\ Len(toPython') <= Capacity
    BY <2>1, <2>2, ToPythonTypes
  <2>4. Shapes'
    BY <1>4, <2>1, <2>3 DEF ListOne, Shapes, Known
  <2> QED BY <1>4, <2>1, <2>3, <2>4, ServerKeys DEF ListOne, TypeOK, Shapes
<1>5. CASE Operate \/ Stray
  <2>1. fromPython' \in Seq(RequestMsg) /\ Len(fromPython') <= Capacity
    BY <1>1, <1>5 DEF Operate, Stray, Asked, TakenOff
  <2>2. astray' \in BOOLEAN
    BY <1>5 DEF Operate, Stray, TypeOK
  <2>3. Shapes'
    BY <1>5, <2>1 DEF Operate, Stray, Shapes, Known
  <2> QED BY <1>5, <2>1, <2>2, <2>3, ServerKeys DEF Operate, Stray, TypeOK, Shapes
<1> QED BY <1>3, <1>4, <1>5 DEF Ipc

(* Of what scenario the receive thread has operations to ask for. *)
LEMMA TriggeredTypes ==
  ASSUME TypeOK, NEW k, NEW data, NEW p \in Triggered(k, data)
  PROVE  /\ p \in [scenario : Scenario, actuator : [key : Key, kind : Kinds]]
         /\ Known(p.actuator.key) /\ p.actuator \in p.scenario.actuators
         /\ p.scenario \in Concerned(k) /\ CheckScenario(p.scenario, data)
<1>1. PICK sc \in Concerned(k) : /\ CheckScenario(sc, data)
                                 /\ p \in {[scenario |-> sc, actuator |-> a] :
                                             a \in {j \in sc.actuators : Known(j.key)}}
  BY DEF Triggered
<1>2. PICK a \in sc.actuators : Known(a.key) /\ p = [scenario |-> sc, actuator |-> a]
  BY <1>1
<1>3. sc \in Scenario /\ a \in [key : Key, kind : Kinds]
  BY <1>1, <1>2, ScenarioAssumption DEF Concerned, TypeOK
<1> QED BY <1>1, <1>2, <1>3

(* The steps of Python's receive thread keep the types. *)
LEMMA RecvTypes == ASSUME TypeInv, Recv PROVE TypeInv'
<1> USE DEF TypeInv, clientVars, serverVars, insertVars, pythonVars
<1> DEFINE m == Head(toPython)
<1>1. ASSUME NEW type, Receiving(type), Received
      PROVE  /\ toPython' \in Seq(PythonMsg) /\ Len(toPython') <= Capacity
             /\ m \in PythonMsg /\ m.type = type
  BY <1>1, ReceivedTypes DEF Receiving
<1>2. CASE RecvInfo
  <2>1. m \in InfoMsg /\ toPython' \in Seq(PythonMsg) /\ Len(toPython') <= Capacity
    BY <1>1, <1>2 DEF RecvInfo, PythonMsg, InfoMsg, Reading
  <2>2. deviceList' \in [Key \cup {Junk} -> Client \cup {None}]
    BY <1>2, <2>1 DEF RecvInfo, InfoMsg, TypeOK
  <2>3. pending = {}
    BY <1>2 DEF RecvInfo, Receiving
  <2>4. Shapes'
    BY <1>2, <2>1, <2>3 DEF RecvInfo, Shapes
  <2> QED BY <1>2, <2>1, <2>2, <2>4, ServerKeys DEF RecvInfo, TypeOK, Shapes
<1>3. CASE RecvData
  <2>1. /\ m \in [type : Reading, key : Key, from : Client, n : 0..MaxReports]
        /\ toPython' \in Seq(PythonMsg) /\ Len(toPython') <= Capacity
    BY <1>1, <1>3 DEF RecvData, PythonMsg, InfoMsg, Reading
  <2>2. sensor_data' \in [Key -> [from : Client \cup {None}, n : 0..MaxReports]]
    <3>1. [from |-> m.from, n |-> m.n] \in [from : Client \cup {None}, n : 0..MaxReports]
      BY <2>1
    <3>2. \/ sensor_data' = sensor_data
          \/ sensor_data' = [sensor_data EXCEPT ![m.key] = [from |-> m.from, n |-> m.n]]
      BY <1>3 DEF RecvData
    <3> QED BY <2>1, <3>1, <3>2 DEF TypeOK
  <2>3. raised' \in BOOLEAN
    BY <1>3 DEF RecvData
  <2>4. \A p \in pending' : /\ p \in [scenario : Scenario, actuator : [key : Key, kind : Kinds]]
                            /\ Known(p.actuator.key) /\ p.actuator \in p.scenario.actuators
    <3>1. pending' = {} \/ pending' = Triggered(m.key, sensor_data')
      BY <1>3 DEF RecvData
    <3> QED BY <3>1, TriggeredTypes
  <2>5. Shapes'
    BY <1>3, <2>1, <2>4 DEF RecvData, Shapes, Known
  <2> QED BY <1>3, <2>1, <2>2, <2>3, <2>4, <2>5, ServerKeys DEF RecvData, TypeOK, Shapes
<1>4. CASE RecvPong
  <2>1. toPython' \in Seq(PythonMsg) /\ Len(toPython') <= Capacity
    BY <1>1, <1>4 DEF RecvPong
  <2>2. Shapes'
    BY <1>4, <2>1 DEF RecvPong, Shapes, Known
  <2> QED BY <1>4, <2>1, <2>2, ServerKeys DEF RecvPong, TypeOK, Shapes
<1>5. CASE AskPending
  <2>1. PICK p \in pending :
          /\ AskFor(p.actuator.key, p.actuator.kind)
          /\ raised' = (p.actuator.kind = "raising") /\ pending' \subseteq pending
    BY <1>5 DEF AskPending
  <2>2. p.actuator.key \in Key /\ Known(p.actuator.key)
    BY DEF Shapes
  <2>3. fromPython' \in Seq(RequestMsg) /\ Len(fromPython') <= Capacity
    BY <2>1, <2>2, AskForTypes
  <2>4. Shapes'
    BY <1>5, <2>1, <2>3 DEF AskPending, Shapes, Known
  <2> QED BY <1>5, <2>1, <2>3, <2>4, ServerKeys DEF AskPending, TypeOK, Shapes
<1> QED BY <1>2, <1>3, <1>4, <1>5 DEF Recv

(* What the web thread asks for has its type. *)
LEMMA WebAsksTypes ==
  ASSUME TypeInv, WebAsks
  PROVE  /\ fromPython' \in Seq(RequestMsg) /\ Len(fromPython') <= Capacity
<1>1. CASE FromPython("IPC_REQ_ALL_DEVICE_INFO", None, None)
  <2>1. [type |-> "IPC_REQ_ALL_DEVICE_INFO", key |-> None, from |-> None] \in RequestMsg
    BY DEF RequestMsg
  <2> QED BY <1>1, <2>1, FromPythonTypes
<1>2. ASSUME NEW k \in Key, NEW kind \in Kinds, Known(k), AskFor(k, kind)
      PROVE  fromPython' \in Seq(RequestMsg) /\ Len(fromPython') <= Capacity
  BY <1>2, AskForTypes
<1> QED BY <1>1, <1>2 DEF WebAsks

(* The steps of the web thread keep the types. *)
LEMMA WebTypes == ASSUME TypeInv, Web PROVE TypeInv'
<1> USE DEF TypeInv, clientVars, serverVars, insertVars
<1>1. web' \in Nat /\ leaves + web' <= MaxExtras
  BY BoundAssumption DEF Web, TypeOK
<1>2. /\ fromPython' \in Seq(RequestMsg) /\ Len(fromPython') <= Capacity
      /\ scenarios' \subseteq Scenario
  BY WebAsksTypes DEF Web, WebAsks, AddScenario, TypeOK, Shapes
<1>3. Shapes'
  BY <1>2 DEF Web, Shapes, Known
<1> QED BY <1>1, <1>2, <1>3, ServerKeys DEF Web, TypeOK, Shapes

(* TypeInv holds initially and every step keeps it. *)
LEMMA TypeInvariant == Spec => []TypeInv
<1>1. Init => TypeInv
  <2> SUFFICES ASSUME Init PROVE TypeInv
    OBVIOUS
  <2>1. /\ toServer \in [Client -> Seq(ClientMsg)] /\ entering \in [Client -> Key \cup {None}]
        /\ toPython \in Seq(PythonMsg) /\ fromPython \in Seq(RequestMsg)
        /\ Len(toPython) <= Capacity /\ Len(fromPython) <= Capacity
        /\ \A c \in Client : DOMAIN toServer[c] = {}
    BY CapacityAssumption DEF Init
  <2>2. /\ repository \in [Key -> Client \cup {None}]
        /\ deviceList \in [Key \cup {Junk} -> Client \cup {None}]
        /\ told \in [Client -> Nat] /\ informing \in [Client -> Key \cup {None}]
    BY DEF Init
  <2>3. sensor_data \in [Key -> [from : Client \cup {None}, n : 0..MaxReports]]
    BY BoundAssumption DEF Init, NoReading
  <2>4. reports \in 0..MaxReports /\ leaves \in Nat /\ web \in Nat /\ leaves + web <= MaxExtras
    BY BoundAssumption DEF Init
  <2>5. /\ scenarios \subseteq Scenario /\ up \in BOOLEAN /\ raised \in BOOLEAN
        /\ crossed \in BOOLEAN /\ astray \in BOOLEAN
    BY ScenarioAssumption DEF Init
  <2>6. Shapes
    BY <2>1, <2>2 DEF Init, Shapes
  <2>7. TypeOK
    BY <2>1, <2>2, <2>3, <2>4, <2>5 DEF Init, TypeOK
  <2> QED BY <2>6, <2>7 DEF TypeInv
<1>2. TypeInv /\ [Next]_vars => TypeInv'
  <2> SUFFICES ASSUME TypeInv, [Next]_vars PROVE TypeInv'
    OBVIOUS
  <2>1. CASE UNCHANGED vars
    BY <2>1 DEF vars, clientVars, serverVars, insertVars, pythonVars, TypeInv, TypeOK, Shapes, Known
  <2>2. CASE Next
    BY <2>2, ClientTypes, SessionTypes, IpcTypes, RecvTypes, WebTypes DEF Next
  <2> QED BY <2>1, <2>2
<1> QED BY <1>1, <1>2, PTL DEF Spec

-----------------------------------------------------------------------------
(* Owners. *)

OwnerInv == TypeInv /\ Owners

(* The steps of a client keep Owners: it speaks of its own devices.         *)
LEMMA ClientOwners ==
  ASSUME OwnerInv, NEW c \in Client, Connect(c) \/ Announce(c) \/ Report(c) \/ Leave(c)
  PROVE  Owners'
<1> USE DEF OwnerInv, Owners
<1>1. \A d : Has(d)' = Has(d)
  BY DEF Connect, Announce, Report, Leave, Has
<1>2. KeptOfOwner' /\ ToldOfOwner' /\ NamesOwner'
  BY <1>1 DEF Connect, Announce, Report, Leave, serverVars, insertVars, pythonVars,
              KeptOfOwner, ToldOfOwner, NamesOwner, Known
<1>3. SentByOwner'
  <2>1. CASE Connect(c)
    BY <1>1, <2>1 DEF Connect, SentByOwner
  <2>2. CASE Announce(c) \/ Report(c)
    <3>1. PICK m \in ClientMsg :
            m.key \in Has(c) /\ toServer' = [toServer EXCEPT ![c] = Append(toServer[c], m)]
      BY <2>2, Speaks
    <3>2. toServer \in [Client -> Seq(ClientMsg)]
      BY DEF TypeInv, Shapes
    <3>3. \A i \in DOMAIN Append(toServer[c], m) : Append(toServer[c], m)[i].key \in Has(c)
      BY <3>1, <3>2, Appended DEF SentByOwner
    <3> QED BY <1>1, <3>1, <3>2, <3>3 DEF SentByOwner
  <2>3. CASE Leave(c)
    <3>1. toServer' = toServer \/ toServer' = [toServer EXCEPT ![c] = <<>>]
      BY <2>3 DEF Leave
    <3>2. \A d \in Client : toServer'[d] = toServer[d] \/ DOMAIN toServer'[d] = {}
      BY <3>1 DEF TypeInv, Shapes
    <3> SUFFICES ASSUME NEW d \in Client, NEW i \in DOMAIN toServer'[d]
                 PROVE  toServer'[d][i].key \in Has(d)
      BY <1>1 DEF SentByOwner
    <3>3. toServer'[d] = toServer[d]
      BY <3>2
    <3> QED BY <3>3 DEF SentByOwner
  <2> QED BY <2>1, <2>2, <2>3
<1> QED BY <1>2, <1>3

(* A device may be lost, or the one inserted gets its place. *)
LEMMA EnterPlaces ==
  ASSUME TypeInv, NEW c \in Client, Enter(c), NEW j \in Key
  PROVE  \/ repository'[j] \in {None, repository[j]}
         \/ j = entering[c] /\ repository'[j] = c
<1>1. repository \in [Key -> Client \cup {None}]
  BY DEF TypeInv, TypeOK
<1>2. CASE Placed(entering[c], c)
  BY <1>1, <1>2 DEF Placed
<1>3. CASE Misplaced(entering[c], c)
  BY <1>1, <1>3 DEF Misplaced
<1>4. CASE UNCHANGED repository
  BY <1>4
<1> QED BY <1>2, <1>3, <1>4 DEF Enter

(* The steps of a session keep Owners: it enters what its client announced, *)
(* under its client's name.                                                 *)
LEMMA SessionOwners == ASSUME OwnerInv, NEW c \in Client, Session(c) PROVE Owners'
<1> USE DEF OwnerInv, Owners, clientVars, serverVars, insertVars, pythonVars
<1>1. \A d : Has(d)' = Has(d)
  BY DEF Session, Insert, Enter, Inform, PassOn, HangUp, Has
<1>2. toServer \in [Client -> Seq(ClientMsg)] /\ toPython \in Seq(PythonMsg)
  BY DEF TypeInv, Shapes
<1>3. ASSUME toServer[c] # <<>>
      PROVE  /\ Head(toServer[c]) \in ClientMsg /\ Head(toServer[c]).key \in Has(c)
             /\ toServer' = [toServer EXCEPT ![c] = Tail(@)] => SentByOwner'
  <2> DEFINE b == toServer[c]
  <2>1. /\ b \in Seq(ClientMsg) /\ b # <<>> /\ \A i \in DOMAIN b : b[i].key \in Has(c)
    BY <1>2, <1>3 DEF SentByOwner
  <2>2. Head(b) \in ClientMsg /\ Head(b).key \in Has(c)
    BY <2>1, Taken
  <2>3. \A i \in DOMAIN Tail(b) : Tail(b)[i].key \in Has(c)
    BY <2>1, Taken
  <2> QED BY <1>1, <1>2, <2>2, <2>3 DEF SentByOwner
<1>4. ASSUME NEW m \in PythonMsg, m.key \in Key => m.key \in Has(m.from), ToPython(m)
      PROVE  ToldOfOwner'
  BY <1>1, <1>2, <1>4, Appended DEF ToldOfOwner, ToPython
<1>5. NamesOwner'
  BY <1>1 DEF Session, Insert, Enter, Inform, PassOn, HangUp, NamesOwner
<1>6. CASE Insert(c)
  <2> DEFINE k == Head(toServer[c]).key
  <2>1. k \in Key /\ k \in Has(c) /\ SentByOwner'
    BY <1>3, <1>6 DEF Insert, Got, Handled, ClientMsg
  <2>2. KeptOfOwner'
    BY <1>1, <1>6, <2>1 DEF Insert, KeptOfOwner, Known, TypeInv, TypeOK, Shapes
  <2> QED BY <1>1, <1>5, <1>6, <2>1, <2>2 DEF Insert, ToldOfOwner
<1>10. CASE Enter(c)
  <2> DEFINE k == entering[c]
  <2>1. k \in Key /\ k \in Has(c)
    BY <1>10 DEF Enter, KeptOfOwner, TypeInv, Shapes
  <2>2. \A j \in Key : repository'[j] \in {None, repository[j]} \/ (j = k /\ repository'[j] = c)
    BY <1>10, EnterPlaces
  <2>3. \A j \in Key : repository'[j] # None => j \in Has(repository'[j])
    BY <2>1, <2>2 DEF KeptOfOwner
  <2>4. KeptOfOwner'
    <3>1. informing' = [informing EXCEPT ![c] = k] /\ entering' = [entering EXCEPT ![c] = None]
      BY <1>10 DEF Enter
    <3>2. UNCHANGED <<listing, deviceList, sensor_data>>
      BY <1>10 DEF Enter
    <3>3. \A d \in Client : /\ entering'[d] # None => entering'[d] \in Has(d)
                            /\ informing'[d] # None => informing'[d] \in Has(d)
      BY <2>1, <3>1 DEF KeptOfOwner, TypeInv, Shapes
    <3> QED BY <1>1, <2>3, <3>2, <3>3 DEF KeptOfOwner, Known
  <2> QED BY <1>1, <1>5, <1>10, <2>4 DEF Enter, ToldOfOwner, SentByOwner
<1>7. CASE Inform(c)
  <2>1. /\ Info(informing[c], c) \in PythonMsg /\ Info(Junk, c) \in PythonMsg
        /\ Info(informing[c], c).key = informing[c] /\ Info(informing[c], c).from = c
        /\ Info(Junk, c).key = Junk
    BY <1>7 DEF Inform, Info, PythonMsg, InfoMsg, TypeInv, Shapes
  <2>2. informing[c] \in Has(c)
    BY <1>7 DEF Inform, KeptOfOwner
  <2>3. ToldOfOwner'
    <3>1. CASE UNCHANGED toPython
      BY <1>1, <3>1 DEF ToldOfOwner
    <3> QED BY <1>4, <1>7, <2>1, <2>2, <3>1, KeyAssumption DEF Inform
  <2>4. SentByOwner' /\ KeptOfOwner'
    BY <1>1, <1>7 DEF Inform, SentByOwner, KeptOfOwner, Known, TypeInv, Shapes
  <2> QED BY <1>5, <2>3, <2>4
<1>8. CASE PassOn(c)
  <2> DEFINE m == Head(toServer[c])
             p == [type |-> m.type, key |-> m.key, from |-> c, n |-> m.n]
  <2>1. m \in ClientMsg /\ m.type \in Reading /\ m.key \in Has(c) /\ SentByOwner'
    BY <1>3, <1>8 DEF PassOn, Handled, Reading
  <2>2. p \in PythonMsg /\ p.key = m.key /\ p.from = c
    BY <2>1 DEF ClientMsg, PythonMsg
  <2>3. ToldOfOwner'
    <3>1. CASE UNCHANGED toPython
      BY <1>1, <3>1 DEF ToldOfOwner
    <3> QED BY <1>4, <1>8, <2>1, <2>2, <3>1 DEF PassOn
  <2>4. KeptOfOwner'
    BY <1>1, <1>8 DEF PassOn, KeptOfOwner, Known
  <2> QED BY <1>5, <2>1, <2>3, <2>4
<1>9. CASE HangUp(c)
  BY <1>1, <1>5, <1>9 DEF HangUp, SentByOwner, KeptOfOwner, Known, ToldOfOwner
<1> QED BY <1>6, <1>7, <1>8, <1>9, <1>10 DEF Session

(* The steps of the IPC thread keep Owners. *)
LEMMA IpcOwners == ASSUME OwnerInv, Ipc \/ Misread PROVE Owners'
<1> USE DEF OwnerInv, Owners, clientVars, serverVars, insertVars, pythonVars
<1>1. \A d : Has(d)' = Has(d)
  BY DEF Ipc, ListDevices, ListOne, Operate, Stray, Misread, Has
<1>2. toPython \in Seq(PythonMsg) /\ fromPython \in Seq(RequestMsg)
  BY DEF TypeInv, Shapes
<1>3. SentByOwner'
  BY <1>1 DEF Ipc, ListDevices, ListOne, Operate, Stray, Misread, SentByOwner
<1>4. ASSUME fromPython # <<>>, TakenOff
      PROVE  NamesOwner'
  BY <1>1, <1>2, <1>4, Taken DEF NamesOwner, TakenOff
<1>5. CASE ListDevices \/ Misread
  <2>1. \A m \in listing' : m.key \in Has(m.from)
    <3>1. CASE UNCHANGED listing
      BY <3>1 DEF KeptOfOwner
    <3>2. CASE TakeList
      <4>1. \A m \in listing' : \E k \in Key : repository[k] # None /\ m = Info(k, repository[k])
        BY <3>2 DEF TakeList
      <4> QED BY <4>1 DEF KeptOfOwner, Info
    <3> QED BY <1>5, <3>1, <3>2 DEF ListDevices, Misread
  <2>2. KeptOfOwner'
    BY <1>1, <1>5, <2>1 DEF ListDevices, Misread, KeptOfOwner, Known
  <2> QED BY <1>1, <1>3, <1>4, <1>5, <2>2 DEF ListDevices, Misread, Asked, ToldOfOwner
<1>6. CASE ListOne
  <2>1. PICK m \in listing : ToPython(m) /\ listing' = listing \ {m}
    BY <1>6 DEF ListOne
  <2>2. m \in PythonMsg /\ m.key \in Has(m.from)
    BY DEF TypeInv, Shapes, PythonMsg, KeptOfOwner
  <2>3. ToldOfOwner'
    BY <1>1, <1>2, <2>1, <2>2, Appended DEF ToldOfOwner, ToPython
  <2>4. KeptOfOwner'
    BY <1>1, <1>6, <2>1 DEF ListOne, KeptOfOwner, Known
  <2> QED BY <1>1, <1>3, <1>6, <2>3, <2>4 DEF ListOne, NamesOwner
<1>7. CASE Operate \/ Stray
  <2>1. KeptOfOwner' /\ ToldOfOwner'
    BY <1>1, <1>7 DEF Operate, Stray, KeptOfOwner, Known, ToldOfOwner
  <2> QED BY <1>3, <1>4, <1>7, <2>1 DEF Operate, Stray, Asked
<1> QED BY <1>5, <1>6, <1>7 DEF Ipc

(* Python asks the client that it was told has the device. *)
LEMMA AskForOwner ==
  ASSUME OwnerInv, NEW k \in Key, NEW kind, Known(k), AskFor(k, kind),
         \A d : Has(d)' = Has(d)
  PROVE  NamesOwner'
<1>1. PICK type : FromPython(type, k, deviceList[k])
  BY DEF AskFor
<1> DEFINE r == [type |-> type, key |-> k, from |-> deviceList[k]]
<1>2. r.key \in Has(r.from) /\ fromPython' = Append(fromPython, r)
  BY <1>1 DEF OwnerInv, Owners, KeptOfOwner, FromPython
<1>3. fromPython \in Seq(RequestMsg)
  BY DEF OwnerInv, TypeInv, Shapes
<1>4. \A i \in DOMAIN fromPython' : \/ i \in DOMAIN fromPython /\ fromPython'[i] = fromPython[i]
                                    \/ fromPython'[i] = r
  BY <1>2, <1>3, AppendProperties, LenProperties
<1>5. SUFFICES ASSUME NEW i \in DOMAIN fromPython',
                      fromPython'[i].type # "IPC_REQ_ALL_DEVICE_INFO"
               PROVE  fromPython'[i].key \in Has(fromPython'[i].from)
  BY DEF NamesOwner
<1> QED BY <1>2, <1>4, <1>5 DEF OwnerInv, Owners, NamesOwner

(* The steps of Python's receive thread keep Owners.                        *)
LEMMA RecvOwners == ASSUME OwnerInv, Recv PROVE Owners'
<1> USE DEF OwnerInv, Owners, clientVars, serverVars, insertVars, pythonVars
<1> DEFINE m == Head(toPython)
<1>1. \A d : Has(d)' = Has(d)
  BY DEF Recv, RecvInfo, RecvData, RecvPong, AskPending, Has
<1>2. toPython \in Seq(PythonMsg) /\ fromPython \in Seq(RequestMsg)
  BY DEF TypeInv, Shapes
<1>3. SentByOwner'
  BY <1>1 DEF Recv, RecvInfo, RecvData, RecvPong, AskPending, SentByOwner
<1>4. ASSUME NEW type, Receiving(type), Received
      PROVE  /\ ToldOfOwner' /\ m \in PythonMsg /\ m.type = type
             /\ m.key \in Key => m.key \in Has(m.from)
  BY <1>1, <1>2, <1>4, Taken DEF ToldOfOwner, Receiving, Received
<1>5. CASE RecvInfo
  <2>1. m \in InfoMsg /\ (m.key \in Key => m.key \in Has(m.from)) /\ ToldOfOwner'
    BY <1>4, <1>5 DEF RecvInfo, PythonMsg, InfoMsg, Reading
  <2>2. \A k \in Key : Known(k)' => k \in Has(deviceList'[k])
    BY <1>5, <2>1 DEF RecvInfo, KeptOfOwner, Known, TypeInv, TypeOK
  <2>3. KeptOfOwner'
    BY <1>1, <1>5, <2>2 DEF RecvInfo, KeptOfOwner
  <2> QED BY <1>1, <1>3, <1>5, <2>1, <2>3 DEF RecvInfo, NamesOwner
<1>6. CASE RecvData
  <2>1. /\ m \in [type : Reading, key : Key, from : Client, n : 0..MaxReports]
        /\ m.key \in Has(m.from) /\ ToldOfOwner'
    BY <1>4, <1>6 DEF RecvData, PythonMsg, InfoMsg, Reading
  <2>2. \/ sensor_data' = sensor_data
        \/ sensor_data' = [sensor_data EXCEPT ![m.key] = [from |-> m.from, n |-> m.n]]
    BY <1>6 DEF RecvData
  <2>3. \A k \in Key : sensor_data'[k].from # None => k \in Has(sensor_data'[k].from)
    <3>1. sensor_data \in [Key -> [from : Client \cup {None}, n : 0..MaxReports]]
      BY DEF TypeInv, TypeOK
    <3>2. \A k \in Key : sensor_data'[k] = sensor_data[k]
                         \/ (k = m.key /\ sensor_data'[k].from = m.from)
      BY <2>2, <3>1
    <3> QED BY <2>1, <3>2 DEF KeptOfOwner
  <2>4. KeptOfOwner'
    BY <1>1, <1>6, <2>3 DEF RecvData, KeptOfOwner, Known
  <2> QED BY <1>1, <1>3, <1>6, <2>1, <2>4 DEF RecvData, NamesOwner
<1>7. CASE RecvPong
  BY <1>1, <1>3, <1>4, <1>7 DEF RecvPong, KeptOfOwner, Known, NamesOwner
<1>8. CASE AskPending
  <2>1. PICK p \in pending : AskFor(p.actuator.key, p.actuator.kind)
    BY <1>8 DEF AskPending
  <2>2. p.actuator.key \in Key /\ Known(p.actuator.key)
    BY DEF TypeInv, Shapes
  <2>3. NamesOwner'
    BY <1>1, <2>1, <2>2, AskForOwner
  <2> QED BY <1>1, <1>3, <1>8, <2>3 DEF AskPending, KeptOfOwner, Known, ToldOfOwner
<1> QED BY <1>5, <1>6, <1>7, <1>8 DEF Recv

(* The steps of the web thread keep Owners. *)
LEMMA WebOwners == ASSUME OwnerInv, Web PROVE Owners'
<1> USE DEF OwnerInv, Owners, clientVars, serverVars, insertVars
<1>1. \A d : Has(d)' = Has(d)
  BY DEF Web, Has
<1>2. fromPython \in Seq(RequestMsg)
  BY DEF TypeInv, Shapes
<1>3. NamesOwner'
  <2>1. CASE UNCHANGED fromPython
    BY <1>1, <2>1 DEF NamesOwner
  <2>2. CASE FromPython("IPC_REQ_ALL_DEVICE_INFO", None, None)
    <3> DEFINE r == [type |-> "IPC_REQ_ALL_DEVICE_INFO", key |-> None, from |-> None]
    <3>1. r \in RequestMsg /\ r.type = "IPC_REQ_ALL_DEVICE_INFO"
      BY DEF RequestMsg
    <3> QED BY <1>1, <1>2, <2>2, <3>1, Appended DEF NamesOwner, FromPython
  <2>3. ASSUME NEW k \in Key, NEW kind \in Kinds, Known(k), AskFor(k, kind)
        PROVE  NamesOwner'
    BY <1>1, <2>3, AskForOwner
  <2> QED BY <2>1, <2>2, <2>3 DEF Web, WebAsks, AddScenario
<1> QED BY <1>1, <1>3 DEF Web, SentByOwner, KeptOfOwner, Known, ToldOfOwner

(* OwnerInv holds initially and every step keeps it. *)
LEMMA OwnerInvariant == Spec => []OwnerInv
<1>1. Init /\ TypeInv => OwnerInv
  BY DEF Init, NoReading, OwnerInv, Owners, SentByOwner, KeptOfOwner, Known, ToldOfOwner,
         NamesOwner
<1>2. OwnerInv /\ TypeInv' /\ [Next]_vars => OwnerInv'
  <2> SUFFICES ASSUME OwnerInv, [Next]_vars PROVE Owners'
    BY DEF OwnerInv
  <2>1. CASE UNCHANGED vars
    BY <2>1 DEF vars, clientVars, serverVars, insertVars, pythonVars, OwnerInv, Owners, Has, SentByOwner,
                KeptOfOwner, Known, ToldOfOwner, NamesOwner
  <2>2. CASE Next
    BY <2>2, ClientOwners, SessionOwners, IpcOwners, RecvOwners, WebOwners DEF Next
  <2> QED BY <2>1, <2>2
<1> QED BY <1>1, <1>2, TypeInvariant, PTL DEF Spec

-----------------------------------------------------------------------------
(* Scenarios. *)

(* A scenario that is checked and triggers is sound. *)
LEMMA TriggeredSound ==
  ASSUME TypeOK, NEW data, \A j \in Key : data[j].from # None => j \in Has(data[j].from),
         NEW k, NEW p \in Triggered(k, data), NEW x \in Range(p.scenario.sensors), Known(x.key)
  PROVE  /\ data[x.key].from # None /\ x.key \in Has(data[x.key].from)
         /\ Compare(data[x.key].n, x.operator, x.value)
<1>1. p.scenario \in Scenario /\ CheckScenario(p.scenario, data)
  BY TriggeredTypes
<1>2. PICK i \in DOMAIN p.scenario.sensors : x = p.scenario.sensors[i]
  BY DEF Range
<1>3. x.key \in Key
  BY <1>1, <1>2, ScenarioAssumption
<1>4. Met(x, data)
  BY <1>1, <1>2 DEF CheckScenario
<1> QED BY <1>3, <1>4 DEF Met, HasData

(* Every step keeps ScenarioSound: the readings and the list change only    *)
(* while no operation is left to be asked for, and the operations left      *)
(* after a reading are those of scenarios checked with it.                  *)
LEMMA SoundStep ==
  ASSUME OwnerInv, OwnerInv', ScenarioSound, [Next]_vars
  PROVE  ScenarioSound'
<1> DEFINE Kept == UNCHANGED <<devices, deviceList, sensor_data>> /\ pending' \subseteq pending
<1>1. ASSUME Kept PROVE ScenarioSound'
  BY <1>1 DEF ScenarioSound, Known, Has
<1>2. CASE RecvInfo
  BY <1>2 DEF RecvInfo, Receiving, pythonVars, ScenarioSound
<1>3. CASE RecvData
  <2> DEFINE k == Head(toPython).key
  <2>1. UNCHANGED <<devices, deviceList>>
    BY <1>3 DEF RecvData, clientVars
  <2>2. \A j \in Key : sensor_data'[j].from # None => j \in Has(sensor_data'[j].from)
    BY <2>1 DEF OwnerInv, Owners, KeptOfOwner, Has
  <2>3. pending' = {} \/ pending' = Triggered(k, sensor_data')
    BY <1>3 DEF RecvData
  <2>4. ASSUME NEW p \in Triggered(k, sensor_data'), NEW x \in Range(p.scenario.sensors), Known(x.key)
        PROVE  /\ sensor_data'[x.key].from # None /\ x.key \in Has(sensor_data'[x.key].from)
               /\ Compare(sensor_data'[x.key].n, x.operator, x.value)
    BY <2>2, <2>4, TriggeredSound DEF OwnerInv, TypeInv
  <2> QED BY <2>1, <2>3, <2>4 DEF ScenarioSound, Known, Has
<1>4. CASE UNCHANGED vars
  BY <1>1, <1>4 DEF vars, clientVars, pythonVars
<1>5. ASSUME NEW c \in Client, Connect(c) \/ Announce(c) \/ Report(c) \/ Leave(c) \/ Session(c)
      PROVE  Kept
  BY <1>5 DEF Connect, Announce, Report, Leave, Session, Insert, Enter, Inform, PassOn, HangUp,
              clientVars, pythonVars
<1>6. Ipc \/ Misread \/ RecvPong \/ AskPending \/ Web => Kept
  BY DEF Ipc, ListDevices, ListOne, Operate, Stray, Misread, RecvPong, AskPending, Web,
         clientVars, pythonVars
<1> QED BY <1>1, <1>2, <1>3, <1>4, <1>5, <1>6 DEF Next, Recv

-----------------------------------------------------------------------------
(* Agreement of the server and Python. *)

(* What is said of messages to Python stays true when one is added, and the *)
(* new one is said only of itself.                                          *)
LEMMA ToPythonInfo ==
  ASSUME TypeInv, NEW m \in PythonMsg, ToPython(m), NEW k
  PROVE  ToldOf(k)' <=> ToldOf(k) \/ (m.type = "IPC_RESP_DEVICE_INFO" /\ m.key = k)
BY Appended DEF TypeInv, Shapes, ToldOf, ToPython

(* When Python takes a message, only that one goes. *)
LEMMA ReceivedInfo ==
  ASSUME TypeInv, toPython # <<>>, Received, NEW k
  PROVE  ToldOf(k) <=>
           ToldOf(k)' \/ (Head(toPython).type = "IPC_RESP_DEVICE_INFO" /\ Head(toPython).key = k)
<1>1. toPython \in Seq(PythonMsg) /\ toPython' = Tail(toPython)
  BY DEF TypeInv, Shapes, Received
<1>2. /\ Head(toPython) = toPython[1] /\ 1 \in DOMAIN toPython
      /\ \A i \in DOMAIN toPython' : i + 1 \in DOMAIN toPython /\ toPython'[i] = toPython[i+1]
      /\ \A i \in DOMAIN toPython : i = 1 \/ (i - 1 \in DOMAIN toPython' /\ toPython'[i-1] = toPython[i])
  BY <1>1, Taken
<1> QED BY <1>2 DEF ToldOf

(* Steps that leave the repository and the list alone, and add no news of   *)
(* a device to what is on its way, keep Agreeing.                           *)
LEMMA AgreeingKept ==
  ASSUME Agreeing, UNCHANGED <<devices, up, insertVars, informing, repository, deviceList, listing>>,
         \A k : ToldOf(k)' <=> ToldOf(k)
  PROVE  Agreeing'
BY DEF Agreeing, Mentioned, Freed, Known, Shared, Has, insertVars

(* Insert keeps Agreeing: the session has told of the last one. *)
LEMMA InsertAgreeing == ASSUME OwnerInv, Agreeing, NEW c \in Client, Insert(c) PROVE Agreeing'
<1>1. /\ informing[c] = None /\ \A d \in Client : d # c => entering'[d] = entering[d]
      /\ crossed => crossed'
      /\ UNCHANGED <<devices, up, informing, repository, deviceList, listing, toPython>>
  BY DEF Insert, Idle, pythonVars, OwnerInv, TypeInv, Shapes
<1>2. \A j : (ToldOf(j)' <=> ToldOf(j)) /\ (Known(j)' <=> Known(j)) /\ (Shared(j)' <=> Shared(j))
  BY <1>1 DEF ToldOf, Known, Shared, Has
<1> QED BY <1>1, <1>2 DEF Agreeing, Mentioned, Freed

(* Enter keeps Agreeing: the session will tell of what it enters. *)
LEMMA EnterAgreeing == ASSUME OwnerInv, Agreeing, NEW c \in Client, Enter(c) PROVE Agreeing'
<1> DEFINE k == entering[c]
<1>1. /\ k # None /\ k \in Key /\ informing[c] = None
      /\ informing' = [informing EXCEPT ![c] = k] /\ entering' = [entering EXCEPT ![c] = None]
      /\ UNCHANGED <<devices, crossed, deviceList, listing, toPython>>
      /\ up' => up /\ (~up' => crossed)
  BY DEF Enter, pythonVars, clientVars, OwnerInv, TypeInv, Shapes
<1>2. /\ repository \in [Key -> Client \cup {None}]
      /\ informing \in [Client -> Key \cup {None}] /\ entering \in [Client -> Key \cup {None}]
  BY DEF OwnerInv, TypeInv, TypeOK, Shapes
<1>3. \A j : (ToldOf(j)' <=> ToldOf(j)) /\ (Known(j)' <=> Known(j)) /\ (Shared(j)' <=> Shared(j))
  BY <1>1 DEF ToldOf, Known, Shared, Has
<1>4. ~crossed => /\ repository' = [repository EXCEPT ![k] = c]
                  /\ up' = up
  BY DEF Enter, Placed
<1>5. ~crossed' => \A j \in Key : Mentioned(j)' => repository'[j] # None
  BY <1>1, <1>2, <1>3, <1>4, KeyAssumption DEF Agreeing, Mentioned
<1>6. up' => \A j \in Key : repository'[j] # None =>
               Known(j)' \/ ToldOf(j)' \/ informing'[repository'[j]] = j
  <2> SUFFICES ASSUME up', NEW j \in Key, repository'[j] # None
               PROVE  Known(j) \/ ToldOf(j) \/ informing'[repository'[j]] = j
    BY <1>3
  <2>1. CASE j = k /\ repository'[j] = c
    BY <1>1, <1>2, <2>1
  <2>2. CASE repository'[j] = repository[j]
    <3>1. repository[j] \in Client /\ j # None
      BY <1>2, <2>2, KeyAssumption
    <3>2. informing[repository[j]] = j => informing'[repository[j]] = j
      BY <1>1, <1>2, <3>1
    <3> QED BY <1>1, <2>2, <3>2 DEF Agreeing
  <2> QED BY <2>1, <2>2, EnterPlaces DEF OwnerInv
<1>7. Freed' => crossed' \/ \E j \in Key : Shared(j)'
  BY <1>1, <1>3, <1>4 DEF Agreeing, Freed
<1> QED BY <1>5, <1>6, <1>7 DEF Agreeing

(* Inform keeps Agreeing: if the device is still the session's, Python is   *)
(* told of it; if not, two clients have one of that key, and the session    *)
(* that entered it after this one tells Python, or has told it.             *)
LEMMA InformAgreeing == ASSUME OwnerInv, Agreeing, NEW c \in Client, Inform(c) PROVE Agreeing'
<1> DEFINE k == informing[c]
<1>1. /\ k # None /\ up /\ informing' = [informing EXCEPT ![c] = None]
      /\ UNCHANGED <<devices, entering, crossed, repository, deviceList, listing>>
  BY DEF Inform, clientVars, insertVars, pythonVars
<1>2. /\ repository \in [Key -> Client \cup {None}]
      /\ informing \in [Client -> Key \cup {None}] /\ k \in Key /\ k \in Has(c)
  BY <1>1 DEF OwnerInv, TypeInv, TypeOK, Shapes, Owners, KeptOfOwner
<1>3. \A j : (Known(j)' <=> Known(j)) /\ (Shared(j)' <=> Shared(j))
  BY <1>1 DEF Known, Shared, Has
<1>4. (~crossed => repository[k] # None) /\ k # Junk /\ None \notin Client
  BY <1>2, KeyAssumption DEF Agreeing, Mentioned
<1>5. /\ Info(k, c) \in PythonMsg /\ Info(Junk, c) \in PythonMsg
      /\ Info(k, c).type = "IPC_RESP_DEVICE_INFO" /\ Info(k, c).key = k
      /\ Info(Junk, c).type = "IPC_RESP_DEVICE_INFO" /\ Info(Junk, c).key = Junk
  BY <1>2 DEF Info, PythonMsg, InfoMsg
<1>6. \A j \in Key : (\E d \in Client : informing'[d] = j) => \E d \in Client : informing[d] = j
  BY <1>1, <1>2, KeyAssumption
<1>7. CASE ToPython(Info(k, c)) /\ UNCHANGED up
  <2>1. \A j : ToldOf(j)' <=> ToldOf(j) \/ j = k
    BY <1>5, <1>7, ToPythonInfo DEF OwnerInv
  <2>2. ~crossed => \A j \in Key : Mentioned(j)' => repository[j] # None
    BY <1>1, <1>3, <1>4, <1>6, <2>1 DEF Agreeing, Mentioned
  <2>3. \A j \in Key : repository[j] # None =>
          Known(j) \/ ToldOf(j)' \/ informing'[repository[j]] = j
    <3> SUFFICES ASSUME NEW j \in Key, j # k, repository[j] # None
                 PROVE  Known(j) \/ ToldOf(j) \/ informing'[repository[j]] = j
      BY <2>1
    <3>1. informing[repository[j]] = j => informing'[repository[j]] = j
      BY <1>1, <1>2
    <3> QED BY <1>1, <3>1 DEF Agreeing
  <2>4. Freed' => crossed \/ \E j \in Key : Shared(j)
    BY <1>3, <1>4, <1>7, <2>1 DEF Agreeing, Freed
  <2> QED BY <1>1, <1>3, <2>2, <2>3, <2>4 DEF Agreeing
<1>8. CASE repository[k] # c
  <2>1. ~crossed => Shared(k)
    <3>1. ~crossed => repository[k] \in Client /\ k \in Has(repository[k])
      BY <1>2, <1>4 DEF OwnerInv, Owners, KeptOfOwner
    <3> QED BY <1>2, <1>8, <3>1 DEF Shared
  <2>2. \A j \in Key : /\ ToldOf(j) => ToldOf(j)'
                       /\ ToldOf(j)' => ToldOf(j) \/ j = k
    <3>1. CASE UNCHANGED toPython
      BY <3>1 DEF ToldOf
    <3>2. CASE ToPython(Info(k, c)) \/ ToPython(Info(Junk, c))
      BY <1>5, <3>2, ToPythonInfo, KeyAssumption DEF OwnerInv
    <3> QED BY <3>1, <3>2 DEF Inform
  <2>3. ~crossed => \A j \in Key : Mentioned(j)' => repository[j] # None
    BY <1>1, <1>3, <1>4, <1>6, <2>2 DEF Agreeing, Mentioned
  <2>4. \A j \in Key : repository[j] # None =>
          Known(j) \/ ToldOf(j)' \/ informing'[repository[j]] = j
    <3> SUFFICES ASSUME NEW j \in Key, repository[j] # None
                 PROVE  Known(j) \/ ToldOf(j) \/ informing'[repository[j]] = j
      BY <2>2
    <3>1. informing[repository[j]] = j => repository[j] # c
      BY <1>8
    <3>2. informing[repository[j]] = j => informing'[repository[j]] = j
      BY <1>1, <1>2, <3>1
    <3> QED BY <1>1, <3>2 DEF Agreeing
  <2> QED BY <1>1, <1>2, <1>3, <2>1, <2>3, <2>4 DEF Agreeing
<1> QED BY <1>7, <1>8 DEF Inform

(* The steps of the IPC thread keep Agreeing: what it lists is in the       *)
(* repository.                                                              *)
LEMMA IpcAgreeing == ASSUME OwnerInv, Agreeing, Ipc \/ Misread PROVE Agreeing'
<1> USE DEF clientVars, serverVars, insertVars, pythonVars
<1>1. CASE (ListDevices \/ Misread) /\ TakeList
  <2>1. /\ UNCHANGED <<devices, up, entering, crossed, informing, repository, deviceList, toPython>>
        /\ listing' = {Info(k, repository[k]) : k \in {j \in Key : repository[j] # None}}
    BY <1>1 DEF ListDevices, Misread, TakeList
  <2>2. \A m \in listing' : m.key \in Key /\ repository[m.key] # None
    BY <2>1 DEF Info
  <2>3. \A j : (ToldOf(j)' <=> ToldOf(j)) /\ (Known(j)' <=> Known(j)) /\ (Shared(j)' <=> Shared(j))
    BY <2>1 DEF ToldOf, Known, Shared, Has
  <2>4. ~crossed => \A j \in Key : Mentioned(j)' => repository[j] # None
    BY <2>1, <2>2, <2>3 DEF Agreeing, Mentioned
  <2> QED BY <2>1, <2>3, <2>4 DEF Agreeing, Freed
<1>2. CASE ListOne
  <2>1. PICK m \in listing : ToPython(m) /\ listing' = listing \ {m}
    BY <1>2 DEF ListOne
  <2>2. UNCHANGED <<devices, up, entering, crossed, informing, repository, deviceList>>
    BY <1>2 DEF ListOne
  <2>3. m \in PythonMsg /\ m.type = "IPC_RESP_DEVICE_INFO" /\ m.key \in Key /\ m.key # Junk
    BY KeyAssumption DEF OwnerInv, TypeInv, Shapes, PythonMsg, InfoMsg
  <2>4. \A j : ToldOf(j)' <=> ToldOf(j) \/ j = m.key
    BY <2>1, <2>3, ToPythonInfo DEF OwnerInv
  <2>5. \A j : (Known(j)' <=> Known(j)) /\ (Shared(j)' <=> Shared(j))
    BY <2>2 DEF Known, Shared, Has
  <2>6. \A j \in Key : Mentioned(j)' => Mentioned(j)
    BY <2>1, <2>2, <2>4, <2>5 DEF Mentioned
  <2>7. Freed' => Freed
    BY <2>2, <2>3, <2>4, <2>5 DEF Freed
  <2> QED BY <2>2, <2>4, <2>5, <2>6, <2>7 DEF Agreeing
<1>3. CASE Operate \/ Stray \/ (Misread /\ UNCHANGED listing)
  BY <1>3, AgreeingKept DEF Operate, Stray, Misread, ToldOf
<1> QED BY <1>1, <1>2, <1>3 DEF Ipc, ListDevices, Misread

(* RecvInfo keeps Agreeing: Python then knows what it was told of.          *)
LEMMA RecvInfoAgreeing == ASSUME OwnerInv, Agreeing, RecvInfo PROVE Agreeing'
<1> DEFINE m == Head(toPython)
<1>1. /\ UNCHANGED <<devices, up, entering, crossed, informing, repository, listing>>
      /\ toPython # <<>> /\ Received /\ m.type = "IPC_RESP_DEVICE_INFO"
      /\ deviceList' = IF Known(m.key) THEN deviceList ELSE [deviceList EXCEPT ![m.key] = m.from]
  BY DEF RecvInfo, Receiving, clientVars, serverVars, insertVars
<1>2. m \in InfoMsg
  <2>1. m \in PythonMsg
    BY <1>1, Taken DEF OwnerInv, TypeInv, Shapes
  <2> QED BY <1>1, <2>1 DEF PythonMsg, InfoMsg, Reading
<1>3. m.key \in Key \cup {Junk} /\ m.from \in Client /\ m.from # None
  BY <1>2, KeyAssumption DEF InfoMsg
<1>4. \A j \in Key \cup {Junk} : Known(j)' <=> Known(j) \/ j = m.key
  BY <1>1, <1>3 DEF Known, OwnerInv, TypeInv, TypeOK
<1>5. \A j : ToldOf(j) <=> ToldOf(j)' \/ j = m.key
  BY <1>1, ReceivedInfo DEF OwnerInv
<1>6. \A j \in Key \cup {Junk} : (Known(j) \/ ToldOf(j)) <=> (Known(j)' \/ ToldOf(j)')
  BY <1>4, <1>5
<1>7. \A j : Shared(j)' <=> Shared(j)
  BY <1>1 DEF Shared, Has
<1>8. \A j \in Key : Mentioned(j)' => Mentioned(j)
  BY <1>1, <1>6 DEF Mentioned
<1> QED BY <1>1, <1>6, <1>7, <1>8 DEF Agreeing, Freed

(* Every step keeps Agreeing. *)
LEMMA AgreeingStep ==
  ASSUME OwnerInv, Agreeing, [Next]_vars
  PROVE  Agreeing'
<1> USE DEF clientVars, serverVars, insertVars, pythonVars
<1> DEFINE Alone == UNCHANGED <<devices, up, insertVars, informing, repository, deviceList, listing, toPython>>
<1>1. Alone => Agreeing'
  BY AgreeingKept DEF ToldOf
<1>2. UNCHANGED vars \/ AskPending \/ Web => Alone
  BY DEF vars, AskPending, Web
<1>3. ASSUME NEW c \in Client, Connect(c) \/ Announce(c) \/ Report(c) \/ Leave(c) \/ HangUp(c)
      PROVE  Alone
  BY <1>3 DEF Connect, Announce, Report, Leave, HangUp
<1>4. ASSUME NEW c \in Client, PassOn(c) PROVE Agreeing'
  <2> DEFINE m == Head(toServer[c])
             p == [type |-> m.type, key |-> m.key, from |-> c, n |-> m.n]
  <2>1. m \in ClientMsg /\ m.type \in Reading
    <3>1. toServer[c] \in Seq(ClientMsg) /\ toServer[c] # <<>>
      BY <1>4 DEF PassOn, OwnerInv, TypeInv, Shapes
    <3> QED BY <1>4, <3>1, Taken DEF PassOn, Reading
  <2>2. p \in PythonMsg /\ p.type # "IPC_RESP_DEVICE_INFO"
    BY <2>1 DEF ClientMsg, PythonMsg, Reading
  <2>3. \A k : ToldOf(k)' <=> ToldOf(k)
    <3>1. CASE UNCHANGED toPython
      BY <3>1 DEF ToldOf
    <3>2. CASE ToPython(p)
      BY <2>2, <3>2, ToPythonInfo DEF OwnerInv
    <3> QED BY <1>4, <3>1, <3>2 DEF PassOn
  <2> QED BY <1>4, <2>3, AgreeingKept DEF PassOn
<1>5. CASE RecvData \/ RecvPong
  <2>1. /\ toPython # <<>> /\ Received /\ Head(toPython).type # "IPC_RESP_DEVICE_INFO"
        /\ UNCHANGED <<devices, up, insertVars, informing, repository, deviceList, listing>>
    BY <1>5 DEF RecvData, RecvPong, Receiving
  <2>2. \A k : ToldOf(k)' <=> ToldOf(k)
    BY <2>1, ReceivedInfo DEF OwnerInv
  <2> QED BY <2>1, <2>2, AgreeingKept
<1> QED BY <1>1, <1>2, <1>3, <1>4, <1>5, InsertAgreeing, EnterAgreeing, InformAgreeing,
           IpcAgreeing, RecvInfoAgreeing DEF Next, Session, Recv

(* When nothing is on its way, Python and the repository agree.             *)
LEMMA AgreeWhenQuiet == OwnerInv /\ Agreeing => QuietAgree
<1> SUFFICES ASSUME OwnerInv, Agreeing PROVE QuietAgree
  OBVIOUS
<1>1. ASSUME up, Quiet, NEW k \in Key
      PROVE  /\ repository[k] # None => Known(k)
             /\ Known(k) /\ ~crossed => /\ repository[k] # None
                                        /\ ~Shared(k) => deviceList[k] = repository[k]
  <2>1. ~ToldOf(k) /\ k # None
    BY <1>1, KeyAssumption DEF Quiet, ToldOf
  <2>2. repository[k] # None => repository[k] \in Client
    BY DEF OwnerInv, TypeInv, TypeOK
  <2>3. /\ repository[k] # None => Known(k)
        /\ ~crossed /\ Known(k) => repository[k] # None
    BY <1>1, <2>1, <2>2 DEF Agreeing, Mentioned, Quiet
  <2>4. ASSUME ~crossed, Known(k), deviceList[k] # repository[k] PROVE Shared(k)
    <3>1. deviceList[k] \in Client /\ repository[k] \in Client
      BY <2>2, <2>3, <2>4 DEF Known, OwnerInv, TypeInv, TypeOK
    <3>2. k \in Has(deviceList[k]) /\ k \in Has(repository[k])
      BY <2>3, <2>4 DEF OwnerInv, Owners, KeptOfOwner
    <3> QED BY <2>4, <3>1, <3>2 DEF Shared
  <2> QED BY <2>3, <2>4
<1>2. ASSUME up, Quiet
      PROVE  \A k \in Key : /\ repository[k] # None => Known(k)
                            /\ Known(k) /\ ~crossed
                                 => /\ repository[k] # None
                                    /\ ~Shared(k) => deviceList[k] = repository[k]
  BY <1>1, <1>2
<1>3. ~up \/ Known(Junk) => crossed \/ \E k \in Key : Shared(k)
  BY DEF Agreeing, Freed
<1> QED BY <1>2, <1>3, Zenon DEF QuietAgree

-----------------------------------------------------------------------------
(* Devices before their readings. *)

AnnounceInv == OwnerInv /\ Announced /\ KnownBeforeData

(* How the messages to Python change: at most one is added, or the first is *)
(* taken.                                                                   *)
LEMMA PythonSteps ==
  ASSUME TypeInv, [Next]_vars
  PROVE  \/ UNCHANGED <<toPython, deviceList>>
         \/ UNCHANGED deviceList /\ \E m \in PythonMsg : ToPython(m)
         \/ toPython # <<>> /\ Received /\ (RecvInfo \/ RecvData \/ RecvPong)
<1> USE DEF clientVars, serverVars, insertVars, pythonVars
<1>1. CASE UNCHANGED vars
  BY <1>1 DEF vars
<1>2. ASSUME NEW c \in Client, Inform(c)
      PROVE  /\ UNCHANGED deviceList
             /\ UNCHANGED toPython \/ \E m \in PythonMsg : ToPython(m)
  <2>1. Info(informing[c], c) \in PythonMsg /\ Info(Junk, c) \in PythonMsg
    BY <1>2 DEF Inform, Info, PythonMsg, InfoMsg, TypeInv, Shapes
  <2> QED BY <1>2, <2>1 DEF Inform
<1>3. ASSUME NEW c \in Client, PassOn(c)
      PROVE  /\ UNCHANGED deviceList
             /\ UNCHANGED toPython \/ \E m \in PythonMsg : ToPython(m)
  <2> DEFINE m == Head(toServer[c])
             p == [type |-> m.type, key |-> m.key, from |-> c, n |-> m.n]
  <2>1. m \in ClientMsg
    <3>1. toServer[c] \in Seq(ClientMsg) /\ toServer[c] # <<>>
      BY <1>3 DEF PassOn, TypeInv, Shapes
    <3> QED BY <3>1, Taken
  <2>2. p \in PythonMsg
    BY <1>3, <2>1 DEF PassOn, ClientMsg, PythonMsg, Reading
  <2> QED BY <1>3, <2>2 DEF PassOn
<1>4. ASSUME NEW c \in Client,
             Connect(c) \/ Announce(c) \/ Report(c) \/ Leave(c) \/ Insert(c) \/ Enter(c) \/ HangUp(c)
      PROVE  UNCHANGED <<toPython, deviceList>>
  BY <1>4 DEF Connect, Announce, Report, Leave, Insert, Enter, HangUp
<1>5. CASE ListOne
  <2>1. listing \subseteq PythonMsg
    BY DEF TypeInv, Shapes, PythonMsg
  <2> QED BY <1>5, <2>1 DEF ListOne
<1>6. ListDevices \/ Operate \/ Stray \/ Misread \/ AskPending \/ Web
        => UNCHANGED <<toPython, deviceList>>
  BY DEF ListDevices, Operate, Stray, Misread, AskPending, Web
<1>7. RecvInfo \/ RecvData \/ RecvPong => toPython # <<>> /\ Received
  BY DEF RecvInfo, RecvData, RecvPong, Receiving
<1> QED BY <1>1, <1>2, <1>3, <1>4, <1>5, <1>6, <1>7 DEF Next, Session, Ipc, Recv

(* The first message, when Python takes it: if it tells of a device, Python *)
(* knows it then.                                                           *)
LEMMA TellsOnce ==
  ASSUME TypeInv, toPython # <<>>, Received, RecvInfo \/ RecvData \/ RecvPong,
         NEW k \in Key \cup {Junk}
  PROVE  /\ Known(k) => Known(k)'
         /\ Tells(1, k) => Known(k)' \/ Known(Junk)'
<1> DEFINE m == Head(toPython)
<1>1. m = toPython[1] /\ m \in PythonMsg
  BY Taken DEF TypeInv, Shapes
<1>2. CASE RecvInfo
  <2>1. m.type = "IPC_RESP_DEVICE_INFO"
    BY <1>2 DEF RecvInfo, Receiving
  <2>2. m \in InfoMsg
    BY <1>1, <2>1 DEF PythonMsg, InfoMsg, Reading
  <2>3. m.key \in Key \cup {Junk} /\ m.from # None
    BY <2>2, KeyAssumption DEF InfoMsg
  <2> QED BY <1>1, <1>2, <2>3 DEF RecvInfo, Known, Tells, TypeInv, TypeOK
<1>3. CASE RecvData \/ RecvPong
  <2>1. m.type # "IPC_RESP_DEVICE_INFO"
    BY <1>3 DEF RecvData, RecvPong, Receiving
  <2> QED BY <1>1, <1>3, <2>1 DEF RecvData, RecvPong, pythonVars, Known, Tells
<1> QED BY <1>2, <1>3

(* What Python has heard of it has heard of. *)
LEMMA HeardKept ==
  ASSUME TypeInv, [Next]_vars, NEW k \in Key, Heard(k)
  PROVE  Heard(k)'
<1>1. toPython \in Seq(PythonMsg)
  BY DEF TypeInv, Shapes
<1>2. CASE UNCHANGED <<toPython, deviceList>>
  BY <1>2 DEF Heard, Tells, Known
<1>3. CASE UNCHANGED deviceList /\ \E m \in PythonMsg : ToPython(m)
  <2>1. PICK m \in PythonMsg : toPython' = Append(toPython, m)
    BY <1>3 DEF ToPython
  <2>2. \A j \in DOMAIN toPython : j \in DOMAIN toPython' /\ toPython'[j] = toPython[j]
    BY <1>1, <2>1, Appended
  <2> QED BY <1>3, <2>2 DEF Heard, Tells, Known
<1>4. CASE toPython # <<>> /\ Received /\ (RecvInfo \/ RecvData \/ RecvPong)
  <2>1. CASE Known(k) \/ Known(Junk)
    BY <1>4, <2>1, TellsOnce DEF Heard
  <2>2. ASSUME NEW j \in DOMAIN toPython, Tells(j, k) PROVE Heard(k)'
    <3>1. CASE j = 1
      BY <1>4, <2>2, <3>1, TellsOnce DEF Heard
    <3>2. CASE j # 1
      <4>1. j - 1 \in DOMAIN toPython' /\ toPython'[j-1] = toPython[j]
        BY <1>1, <1>4, <3>2, Taken DEF Received
      <4> QED BY <2>2, <4>1 DEF Heard, Tells
    <3> QED BY <3>1, <3>2
  <2> QED BY <2>1, <2>2 DEF Heard
<1> QED BY <1>2, <1>3, <1>4, PythonSteps

(* The keys a client has, and those of its messages, are keys. *)
LEMMA OwnKeys ==
  ASSUME TypeInv, NEW c \in Client
  PROVE  /\ devices[c] \in Seq(Key) /\ Len(devices[c]) \in Nat
         /\ DOMAIN devices[c] = 1..Len(devices[c])
         /\ \A i \in DOMAIN devices[c] : devices[c][i] \in Key
         /\ toServer[c] \in Seq(ClientMsg) /\ Len(toServer[c]) \in Nat
         /\ DOMAIN toServer[c] = 1..Len(toServer[c])
         /\ \A i \in DOMAIN toServer[c] : toServer[c][i].key \in Key
<1>1. devices[c] \in Seq(Key) /\ toServer[c] \in Seq(ClientMsg)
  BY ConfigAssumption DEF TypeInv, TypeOK, Shapes
<1> QED BY <1>1, ElementOfSeq, LenProperties DEF TypeInv, TypeOK

(* What is said of a device is said still if the session's own part stays.  *)
LEMMA SaidKept ==
  ASSUME TypeInv, [Next]_vars, NEW c \in Client, NEW k \in Key, NEW n \in Nat,
         Held(c, k) => Held(c, k)' \/ Heard(k)',
         \A j \in 1..n : toServer'[c][j] = toServer[c][j],
         Said(c, k, n)
  PROVE  Said(c, k, n)'
BY HeardKept DEF Said, Announces

(* When a session takes its client's first message, and it is an            *)
(* announcement, what it said the session has to tell.                      *)
LEMMA SaidTaken ==
  ASSUME TypeInv, [Next]_vars, NEW c \in Client, NEW k \in Key, NEW n \in Nat,
         toServer[c] # <<>>, toServer'[c] = Tail(toServer[c]), ~Held(c, k),
         n < Len(toServer[c]),
         Announces(Head(toServer[c]), k) => Held(c, k)',
         Said(c, k, n + 1)
  PROVE  Said(c, k, n)'
<1> DEFINE b == toServer[c]
<1>1. /\ Head(b) = b[1] /\ DOMAIN b = 1..Len(b) /\ Len(b) \in Nat
      /\ \A i \in DOMAIN b : i = 1 \/ (i - 1 \in DOMAIN Tail(b) /\ Tail(b)[i-1] = b[i])
  BY OwnKeys, Taken
<1>2. CASE Heard(k) \/ Held(c, k)
  BY <1>2, HeardKept DEF Said
<1>3. ASSUME NEW j \in 1..n+1, Announces(b[j], k) PROVE Said(c, k, n)'
  <2>1. CASE j = 1
    BY <1>1, <1>3, <2>1 DEF Said
  <2>2. CASE j # 1
    <3>1. j - 1 \in 1..n /\ j \in DOMAIN b
      BY <1>1, <2>2
    <3>2. toServer'[c][j-1] = b[j]
      BY <1>1, <2>2, <3>1
    <3> QED BY <1>3, <3>1, <3>2 DEF Said, Announces
  <2> QED BY <2>1, <2>2
<1> QED BY <1>2, <1>3 DEF Said

(* Steps that leave a client, its connection and its session alone keep     *)
(* what is said of its devices.                                             *)
LEMMA SaidFirstKept ==
  ASSUME TypeInv, [Next]_vars, NEW c \in Client, SaidFirst(c), UNCHANGED devices,
         c \in connected' => c \in connected /\ told'[c] = told[c],
         toServer'[c] = toServer[c],
         \A k \in Key : Held(c, k) => Held(c, k)' \/ Heard(k)'
  PROVE  SaidFirst(c)'
<1>1. \A k \in Key, n \in Nat : Said(c, k, n) => Said(c, k, n)'
  BY HeardKept DEF Said, Announces
<1>2. \A k \in Key, n \in Nat : Relies(c, k, n)' => Relies(c, k, n)
  BY DEF Relies
<1> QED BY <1>1, <1>2 DEF SaidFirst

(* A session that takes a message leaves what its client said in order: a   *)
(* device it announces is the session's to tell of.                         *)
LEMMA SaidFirstTaken ==
  ASSUME TypeInv, [Next]_vars, NEW c \in Client, SaidFirst(c),
         UNCHANGED <<devices, connected, told>>,
         toServer[c] # <<>>, toServer'[c] = Tail(toServer[c]), Idle(c),
         \A k \in Key : Announces(Head(toServer[c]), k) => Held(c, k)'
  PROVE  SaidFirst(c)'
<1> DEFINE b == toServer[c]
<1>1. /\ Len(b) \in Nat \ {0} /\ DOMAIN b = 1..Len(b)
      /\ Len(Tail(b)) = Len(b) - 1 /\ DOMAIN Tail(b) = 1..Len(b)-1
      /\ \A i \in DOMAIN Tail(b) : i + 1 \in DOMAIN b /\ Tail(b)[i] = b[i+1]
  BY OwnKeys, Taken, EmptySeq
<1>5. \A k \in Key : ~Held(c, k)
  BY KeyAssumption DEF Idle, Held
<1>2. \A k \in Key, n \in Nat : Relies(c, k, n)' => n < Len(b) /\ Relies(c, k, n + 1)
  BY <1>1 DEF Relies
<1>3. \A k \in Key, n \in Nat : n < Len(b) /\ Said(c, k, n + 1) => Said(c, k, n)'
  BY <1>5, SaidTaken
<1>4. \A n \in Nat : n + 1 \in Nat
  OBVIOUS
<1> QED BY <1>2, <1>3, <1>4 DEF SaidFirst

(* A number is its own remainder modulo a larger one. *)
LEMMA SmallMod == \A x, y \in Nat : x < y => x % y = x
OBVIOUS

(* A client announces its next device, and sends a reading only of one that *)
(* it has announced on this connection.                                     *)
LEMMA SaidFirstSent ==
  ASSUME TypeInv, NEW c \in Client, SaidFirst(c), Announce(c) \/ Report(c)
  PROVE  SaidFirst(c)'
<1> DEFINE b == toServer[c]
           L == Len(devices[c])
           Told(k) == \E i \in 1..L : i <= told[c] /\ devices[c][i] = k
<1>1. PICK m \in ClientMsg :
        /\ m.key = NextDevice(c)
        /\ toServer' = [toServer EXCEPT ![c] = Append(b, m)]
        /\ told' = [told EXCEPT ![c] = @ + 1]
        /\ Announce(c) => m.type = "REGISTER_DEVICE"
        /\ Report(c) => m.type \in Reading
  BY Speaks
<1>2. [Next]_vars /\ c \in connected /\ UNCHANGED <<devices, connected, entering, informing>>
  BY DEF Next, Announce, Report, serverVars, insertVars
<1>3. /\ told[c] \in Nat /\ told'[c] = told[c] + 1 /\ toServer'[c] = Append(b, m)
      /\ \A k : Held(c, k)' <=> Held(c, k)
  BY <1>1, <1>2 DEF TypeInv, Shapes, Held
<1>4. /\ Len(b) \in Nat /\ DOMAIN b = 1..Len(b)
      /\ DOMAIN Append(b, m) = 1..Len(b)+1 /\ Len(Append(b, m)) = Len(b) + 1
      /\ \A i \in 1..Len(b) : Append(b, m)[i] = b[i]
      /\ Append(b, m)[Len(b)+1] = m
      /\ L \in Nat /\ DOMAIN devices[c] = 1..L /\ \A i \in 1..L : devices[c][i] \in Key
  BY OwnKeys, Appended
<1>5. \A k \in Key, n \in 0..Len(b) : Said(c, k, n) => Said(c, k, n)'
  <2> SUFFICES ASSUME NEW k \in Key, NEW n \in 0..Len(b), Said(c, k, n) PROVE Said(c, k, n)'
    OBVIOUS
  <2>1. n \in Nat /\ \A j \in 1..n : toServer'[c][j] = toServer[c][j]
    BY <1>3, <1>4
  <2> QED BY <1>2, <1>3, <2>1, SaidKept
<1>6. \A k \in Key, n, p \in Nat : n <= p /\ Said(c, k, n)' => Said(c, k, p)'
  BY DEF Said
<1>7. \A k \in Key, n \in Nat : n = Len(b) /\ Told(k) => Said(c, k, n)'
  <2>1. \A k \in Key, n \in Nat : n = Len(b) /\ Told(k) => Said(c, k, n)
    BY <1>2, <1>4 DEF SaidFirst, Relies
  <2> QED BY <1>4, <1>5, <2>1
<1>8. ASSUME Announce(c), NEW k \in Key, k = m.key, NEW n \in Nat, n = Len(b) + 1
      PROVE  Said(c, k, n)'
  <2>1. Announces(m, k) /\ n \in 1..n
    BY <1>1, <1>4, <1>8 DEF Announces
  <2> QED BY <1>3, <1>4, <1>8, <2>1 DEF Said, Announces
<1>9. Report(c) => Told(m.key)
  <2> SUFFICES ASSUME Report(c) PROVE Told(m.key)
    OBVIOUS
  <2>1. L # 0 /\ told[c] >= L
    BY <1>4, OwnKeys, EmptySeq DEF Report
  <2> DEFINE i == (told[c] % L) + 1
  <2>2. i \in 1..L /\ i <= told[c]
    BY <1>3, <1>4, <2>1
  <2> QED BY <1>1, <2>2 DEF NextDevice
<1>10. ASSUME NEW k \in Key, Told(k)', ~Told(k) PROVE Announce(c) /\ k = m.key
  <2>1. told[c] + 1 \in 1..L /\ devices[c][told[c]+1] = k
    BY <1>2, <1>3, <1>4, <1>10
  <2>2. Announce(c)
    BY <1>3, <1>4, <2>1 DEF Report
  <2>3. told[c] % L = told[c]
    <3>1. told[c] \in Nat /\ L \in Nat /\ told[c] < L
      BY <1>3, <1>4, <2>1
    <3> QED BY <3>1, SmallMod
  <2> QED BY <1>1, <2>1, <2>2, <2>3 DEF NextDevice
<1>11. ASSUME NEW k \in Key, NEW n \in Nat, n + 1 \in 1..Len(b)+1,
              toServer'[c][n+1].type \in Reading, toServer'[c][n+1].key = k
       PROVE  Said(c, k, n)'
  <2>1. CASE n = Len(b)
    <3>1. Report(c) /\ m.key = k
      BY <1>1, <1>3, <1>4, <1>11, <2>1 DEF Reading
    <3> QED BY <1>7, <1>9, <2>1, <3>1
  <2>2. CASE n # Len(b)
    <3>1. n \in 0..Len(b) /\ n + 1 \in DOMAIN b /\ toServer'[c][n+1] = b[n+1]
      BY <1>3, <1>4, <1>11, <2>2
    <3>2. Relies(c, k, n)
      BY <1>11, <3>1 DEF Relies
    <3> QED BY <1>5, <3>1, <3>2 DEF SaidFirst
  <2> QED BY <2>1, <2>2
<1>12. ASSUME NEW k \in Key, NEW n \in Nat, n = Len(b) + 1, Told(k)' PROVE Said(c, k, n)'
  <2>1. CASE Told(k)
    <3> DEFINE p == n - 1
    <3>1. p \in Nat /\ p = Len(b) /\ p <= n
      BY <1>4, <1>12
    <3> HIDE DEF p
    <3> QED BY <1>6, <1>7, <2>1, <3>1
  <2> QED BY <1>8, <1>10, <1>12, <2>1
<1> QED BY <1>2, <1>3, <1>4, <1>11, <1>12 DEF SaidFirst, Relies

(* Inform tells Python of the session's device, if the server lives.        *)
LEMMA InformsPython ==
  ASSUME TypeInv, NEW c \in Client, Inform(c), up'
  PROVE  \A k \in Key : informing[c] = k => Heard(k)'
<1>1. PICK j \in {informing[c], Junk} : ToPython(Info(j, c))
  BY DEF Inform
<1>2. Info(j, c).type = "IPC_RESP_DEVICE_INFO" /\ Info(j, c).key = j
  BY DEF Info
<1>3. \E i \in DOMAIN toPython' : toPython'[i] = Info(j, c)
  <2>1. Info(j, c) \in PythonMsg /\ toPython \in Seq(PythonMsg) /\ toPython' = Append(toPython, Info(j, c))
    BY <1>1 DEF Inform, ToPython, Info, PythonMsg, InfoMsg, TypeInv, Shapes
  <2> QED BY <2>1, Appended
<1> QED BY <1>1, <1>2, <1>3 DEF Heard, Tells

(* Every step keeps what clients say in order. *)
LEMMA AnnouncedStep ==
  ASSUME TypeInv, Announced, [Next]_vars
  PROVE  Announced'
<1> USE DEF clientVars, serverVars, insertVars, pythonVars
<1> SUFFICES ASSUME up', NEW d \in Client PROVE SaidFirst(d)'
  BY DEF Announced
<1>1. up
  BY DEF Next, Connect, Announce, Report, Leave, Session, Insert, Enter, Inform, PassOn, HangUp,
         Ipc, ListDevices, ListOne, Operate, Stray, Misread, Recv, RecvInfo, RecvData, RecvPong,
         AskPending, Web, vars
<1>2. SaidFirst(d)
  BY <1>1 DEF Announced
<1> DEFINE Alone == /\ UNCHANGED devices
                    /\ d \in connected' => d \in connected /\ told'[d] = told[d]
                    /\ toServer'[d] = toServer[d]
                    /\ entering'[d] = entering[d] /\ informing'[d] = informing[d]
<1>3. Alone => SaidFirst(d)'
  BY <1>2, SaidFirstKept DEF Held
<1>4. UNCHANGED vars \/ Ipc \/ Misread \/ Recv \/ Web => Alone
  BY DEF vars, Ipc, ListDevices, ListOne, Operate, Stray, Misread, Recv, RecvInfo, RecvData,
         RecvPong, AskPending, Web
<1>5. /\ told \in [Client -> Nat] /\ toServer \in [Client -> Seq(ClientMsg)]
      /\ entering \in [Client -> Key \cup {None}] /\ informing \in [Client -> Key \cup {None}]
  BY DEF TypeInv, Shapes
<1>6. ASSUME NEW c \in Client, c # d,
             Connect(c) \/ Announce(c) \/ Report(c) \/ Leave(c) \/ Session(c)
      PROVE  Alone
  BY <1>5, <1>6 DEF Connect, Announce, Report, Tell, Leave, Session, Insert, Enter, Inform, PassOn,
                    HangUp, Handled
<1>7. CASE Announce(d) \/ Report(d)
  BY <1>2, <1>7, SaidFirstSent
<1>8. CASE Connect(d)
  <2>1. \A k \in Key, n \in Nat : Said(d, k, n) => Said(d, k, n)'
    BY <1>8, HeardKept DEF Said, Held, Connect
  <2>2. ~\E i \in DOMAIN devices[d] : i <= told'[d]
    BY <1>5, <1>8, OwnKeys DEF Connect
  <2>3. \A k \in Key, n \in Nat : Relies(d, k, n)' => Relies(d, k, n)
    BY <1>8, <2>2 DEF Relies, Connect
  <2> QED BY <1>2, <2>1, <2>3 DEF SaidFirst
<1>9. CASE Leave(d)
  <2>1. d \notin connected' /\ UNCHANGED <<devices, entering, informing>>
    BY <1>9 DEF Leave
  <2>2. CASE toServer' = toServer
    BY <1>3, <2>1, <2>2
  <2>3. CASE toServer'[d] = <<>>
    BY <2>1, <2>3 DEF SaidFirst, Relies
  <2> QED BY <1>5, <1>9, <2>2, <2>3 DEF Leave
<1>10. CASE Insert(d)
  <2>1. /\ toServer[d] # <<>> /\ toServer'[d] = Tail(toServer[d]) /\ Idle(d)
        /\ entering'[d] = Head(toServer[d]).key /\ UNCHANGED <<devices, connected, told>>
    BY <1>5, <1>10 DEF Insert, Got, Handled
  <2> QED BY <1>2, <2>1, SaidFirstTaken DEF Announces, Held
<1>14. CASE Enter(d)
  <2>1. UNCHANGED <<devices, connected, told, toServer>> /\ informing'[d] = entering[d]
    BY <1>5, <1>14 DEF Enter
  <2>2. \A k \in Key : Held(d, k) => Held(d, k)'
    BY <1>14, <2>1, KeyAssumption DEF Held, Enter, TypeInv, Shapes
  <2> QED BY <1>2, <2>1, <2>2, SaidFirstKept
<1>11. CASE Inform(d)
  <2>1. UNCHANGED <<devices, connected, told, toServer>>
    BY <1>11 DEF Inform
  <2>2. entering'[d] = entering[d]
    BY <1>11 DEF Inform
  <2> QED BY <1>2, <1>11, <2>1, <2>2, InformsPython, SaidFirstKept DEF Held
<1>12. CASE PassOn(d)
  <2>1. /\ toServer[d] # <<>> /\ toServer'[d] = Tail(toServer[d]) /\ Idle(d)
        /\ Head(toServer[d]).type # "REGISTER_DEVICE" /\ UNCHANGED <<devices, connected, told>>
    BY <1>5, <1>12 DEF PassOn, Handled
  <2> QED BY <1>2, <2>1, SaidFirstTaken DEF Announces
<1>13. CASE HangUp(d)
  BY <1>3, <1>13 DEF HangUp
<1> QED BY <1>3, <1>4, <1>6, <1>7, <1>8, <1>9, <1>10, <1>11, <1>12, <1>13,
           <1>14 DEF Next, Session

(* A reading that a session passes on to Python is of a device Python has   *)
(* heard of.                                                                *)
LEMMA PassesKnown ==
  ASSUME TypeInv, Announced, NEW c \in Client, PassOn(c)
  PROVE  Head(toServer[c]).key \in Key /\ Heard(Head(toServer[c]).key)
<1> DEFINE b == toServer[c]
<1>1. up /\ Idle(c) /\ b # <<>> /\ Head(b).type \in Reading
  BY DEF PassOn, Idle, Reading
<1>2. b \in Seq(ClientMsg) /\ Head(b) = b[1] /\ 1 \in DOMAIN b /\ b[1].key \in Key
  BY <1>1, OwnKeys, Taken
<1>3. Relies(c, b[1].key, 0)
  BY <1>1, <1>2 DEF Relies
<1>4. Said(c, b[1].key, 0)
  BY <1>1, <1>2, <1>3 DEF Announced, SaidFirst
<1> QED BY <1>1, <1>2, <1>4, KeyAssumption DEF Said, Held, Idle

(* Every step keeps KnownBeforeData. *)
LEMMA KnownStep ==
  ASSUME TypeInv, Announced, KnownBeforeData, [Next]_vars
  PROVE  KnownBeforeData'
<1> DEFINE Before(i, k) == Known(k) \/ Known(Junk) \/ \E j \in 1..i - 1 : Tells(j, k)
<1>1. toPython \in Seq(PythonMsg)
  BY DEF TypeInv, Shapes
<1>2. CASE UNCHANGED <<toPython, deviceList>>
  BY <1>2 DEF KnownBeforeData, Known, Tells
<1>3. ASSUME UNCHANGED deviceList, NEW m \in PythonMsg, toPython' = Append(toPython, m),
             m.type \in Reading => Heard(m.key)
      PROVE  KnownBeforeData'
  <2>1. /\ DOMAIN toPython = 1..Len(toPython) /\ Len(toPython) \in Nat
        /\ \A i \in DOMAIN toPython : i \in DOMAIN toPython' /\ toPython'[i] = toPython[i]
        /\ toPython'[Len(toPython)+1] = m
        /\ \A i \in DOMAIN toPython' : i \in DOMAIN toPython \/ i = Len(toPython) + 1
    BY <1>1, <1>3, Appended
  <2> SUFFICES ASSUME NEW i \in DOMAIN toPython', toPython'[i].type \in Reading,
                      NEW k, k = toPython'[i].key
               PROVE  Known(k) \/ Known(Junk) \/ \E j \in 1..i - 1 : Tells(j, k)'
    BY <1>3 DEF KnownBeforeData, Known, Tells, Reading
  <2>2. Known(k) \/ Known(Junk) \/ \E j \in 1..i - 1 : j \in DOMAIN toPython /\ Tells(j, k)
    <3>1. CASE i \in DOMAIN toPython
      BY <2>1, <3>1 DEF KnownBeforeData, Reading
    <3>2. CASE i = Len(toPython) + 1
      BY <1>3, <2>1, <3>2 DEF Heard
    <3> QED BY <2>1, <3>1, <3>2
  <2> QED BY <2>1, <2>2 DEF Tells
<1>4. CASE toPython # <<>> /\ Received /\ (RecvInfo \/ RecvData \/ RecvPong)
  <2>1. /\ toPython' = Tail(toPython) /\ DOMAIN toPython = 1..Len(toPython) /\ Len(toPython) \in Nat
        /\ \A i \in DOMAIN toPython' : i + 1 \in DOMAIN toPython /\ toPython'[i] = toPython[i+1]
        /\ \A i \in DOMAIN toPython : i = 1 \/ (i - 1 \in DOMAIN toPython' /\ toPython'[i-1] = toPython[i])
        /\ \A i \in DOMAIN toPython' : i \in Nat
    BY <1>1, <1>4, Taken DEF Received
  <2> SUFFICES ASSUME NEW i \in DOMAIN toPython', toPython'[i].type \in Reading,
                      NEW k, k = toPython'[i].key
               PROVE  (Known(k) \/ Known(Junk) \/ \E j \in 1..i - 1 : Tells(j, k))'
    BY DEF KnownBeforeData, Known, Tells, Reading
  <2>2. k \in Key
    <3>1. toPython[i+1] \in PythonMsg /\ toPython[i+1].type \in Reading
      BY <1>1, <2>1, ElementOfSeq
    <3> QED BY <2>1, <3>1 DEF PythonMsg, InfoMsg, Reading
  <2>3. Known(k) \/ Known(Junk) \/ \E j \in 1..i : Tells(j, k)
    BY <2>1 DEF KnownBeforeData, Reading
  <2>4. CASE Known(k) \/ Known(Junk)
    BY <1>4, <2>2, <2>4, TellsOnce
  <2>5. ASSUME NEW j \in 1..i, Tells(j, k), j # 1 PROVE \E l \in 1..i - 1 : Tells(l, k)'
    <3>1. j \in DOMAIN toPython /\ j - 1 \in 1..i - 1
      BY <2>1, <2>5
    <3>2. toPython'[j-1] = toPython[j]
      BY <2>1, <2>5, <3>1
    <3> QED BY <2>5, <3>1, <3>2 DEF Tells
  <2> QED BY <1>4, <2>2, <2>3, <2>4, <2>5, TellsOnce
<1>5. ASSUME NEW c \in Client, PassOn(c) PROVE KnownBeforeData'
  <2> DEFINE m == Head(toServer[c])
             p == [type |-> m.type, key |-> m.key, from |-> c, n |-> m.n]
  <2>1. Heard(m.key) /\ UNCHANGED deviceList
    BY <1>5, PassesKnown DEF PassOn, pythonVars
  <2>2. m \in ClientMsg /\ m.type \in Reading
    <3>1. toServer[c] \in Seq(ClientMsg) /\ toServer[c] # <<>>
      BY <1>5 DEF PassOn, TypeInv, Shapes
    <3> QED BY <1>5, <3>1, Taken DEF PassOn, Reading
  <2>3. p \in PythonMsg /\ p.key = m.key
    BY <2>2 DEF ClientMsg, PythonMsg
  <2> QED BY <1>2, <1>3, <1>5, <2>1, <2>3 DEF PassOn, ToPython
<1>6. ASSUME NEW m \in PythonMsg, ToPython(m), m.type \notin Reading, UNCHANGED deviceList
      PROVE  KnownBeforeData'
  BY <1>3, <1>6 DEF ToPython
<1>7. ASSUME NEW c \in Client, Inform(c) PROVE KnownBeforeData'
  <2>1. \A j \in {informing[c], Junk} : Info(j, c) \in PythonMsg /\ Info(j, c).type \notin Reading
    BY <1>7 DEF Inform, Info, PythonMsg, InfoMsg, Reading, TypeInv, Shapes
  <2> QED BY <1>2, <1>6, <1>7, <2>1 DEF Inform, pythonVars
<1>8. CASE ListOne
  <2>1. \A m \in listing : m \in PythonMsg /\ m.type \notin Reading
    BY DEF TypeInv, Shapes, PythonMsg, InfoMsg, Reading
  <2> QED BY <1>6, <1>8, <2>1 DEF ListOne, pythonVars
<1>9. ASSUME NEW c \in Client, Connect(c) \/ Announce(c) \/ Report(c) \/ Leave(c) \/ Insert(c) \/ Enter(c) \/ HangUp(c)
      PROVE  UNCHANGED <<toPython, deviceList>>
  BY <1>9 DEF Connect, Announce, Report, Leave, Insert, Enter, HangUp, pythonVars
<1>10. UNCHANGED vars \/ ListDevices \/ Operate \/ Stray \/ Misread \/ AskPending \/ Web
         => UNCHANGED <<toPython, deviceList>>
  BY DEF vars, ListDevices, Operate, Stray, Misread, AskPending, Web, pythonVars
<1>11. RecvInfo \/ RecvData \/ RecvPong => toPython # <<>> /\ Received
  BY DEF RecvInfo, RecvData, RecvPong, Receiving
<1> QED BY <1>2, <1>4, <1>5, <1>7, <1>8, <1>9, <1>10, <1>11 DEF Next, Session, Ipc, Recv

(* What clients announce Python hears of before any reading. *)
LEMMA AnnounceInvariant == Spec => []AnnounceInv
<1>1. Init /\ OwnerInv => AnnounceInv
  <2> SUFFICES ASSUME Init, OwnerInv PROVE Announced /\ KnownBeforeData
    BY DEF AnnounceInv
  <2>1. Announced
    BY DEF Init, Announced, SaidFirst, Relies
  <2>2. KnownBeforeData
    BY DEF Init, KnownBeforeData
  <2> QED BY <2>1, <2>2
<1>2. AnnounceInv /\ OwnerInv' /\ [Next]_vars => AnnounceInv'
  BY AnnouncedStep, KnownStep DEF AnnounceInv, OwnerInv
<1> QED BY <1>1, <1>2, OwnerInvariant, PTL DEF Spec

-----------------------------------------------------------------------------
(* Readings in order. *)

(* How a buffer to the server changes: its client sends one message, and a  *)
(* reading has the next number; or a message, or all of them, are taken.    *)
LEMMA ServerSteps ==
  ASSUME TypeInv, [Next]_vars, NEW c \in Client
  PROVE  \/ toServer'[c] = toServer[c] /\ reports' \in {reports, reports + 1}
         \/ toServer'[c] = <<>> /\ reports' = reports
         \/ toServer[c] # <<>> /\ toServer'[c] = Tail(toServer[c]) /\ reports' = reports
         \/ \E m \in ClientMsg :
              /\ toServer'[c] = Append(toServer[c], m)
              /\ \/ m.type \notin Reading /\ reports' = reports
                 \/ m.n = reports' /\ reports' = reports + 1
<1> USE DEF clientVars, serverVars, insertVars, pythonVars
<1>1. toServer \in [Client -> Seq(ClientMsg)] /\ reports \in Nat
  BY DEF TypeInv, TypeOK, Shapes
<1>2. UNCHANGED vars \/ Ipc \/ Misread \/ Recv \/ Web => UNCHANGED <<toServer, reports>>
  BY DEF vars, Ipc, ListDevices, ListOne, Operate, Stray, Misread, Recv, RecvInfo, RecvData,
         RecvPong, AskPending, Web
<1>3. ASSUME NEW d \in Client, Connect(d) \/ Enter(d) \/ Inform(d) \/ HangUp(d)
      PROVE  UNCHANGED <<toServer, reports>>
  BY <1>3 DEF Connect, Enter, Inform, HangUp
<1>4. ASSUME NEW d \in Client, Leave(d)
      PROVE  (toServer'[c] = toServer[c] \/ toServer'[c] = <<>>) /\ reports' = reports
  BY <1>1, <1>4 DEF Leave
<1>5. ASSUME NEW d \in Client, Insert(d) \/ PassOn(d)
      PROVE  /\ reports' = reports
             /\ \/ toServer'[c] = toServer[c]
                \/ toServer[c] # <<>> /\ toServer'[c] = Tail(toServer[c])
  BY <1>1, <1>5 DEF Insert, Got, PassOn, Handled
<1>6. ASSUME NEW d \in Client, Announce(d) \/ Report(d)
      PROVE  \/ toServer'[c] = toServer[c] /\ reports' \in {reports, reports + 1}
             \/ \E m \in ClientMsg :
                  /\ toServer'[c] = Append(toServer[c], m)
                  /\ \/ m.type \notin Reading /\ reports' = reports
                     \/ m.n = reports' /\ reports' = reports + 1
  <2>1. PICK m \in ClientMsg :
          /\ toServer' = [toServer EXCEPT ![d] = Append(toServer[d], m)]
          /\ Announce(d) => m.type = "REGISTER_DEVICE" /\ reports' = reports
          /\ Report(d) => m.type \in Reading /\ m.n = reports' /\ reports' = reports + 1
    BY <1>6, Speaks
  <2> QED BY <1>1, <1>6, <2>1 DEF Reading
<1> QED BY <1>1, <1>2, <1>3, <1>4, <1>5, <1>6 DEF Next, Session

(* The numbers of messages on their way are numbers. *)
LEMMA ServerNumbers ==
  ASSUME TypeInv, NEW c \in Client
  PROVE  \A i \in DOMAIN toServer[c] : i \in Nat /\ toServer[c][i].n \in Nat
<1>1. toServer[c] \in Seq(ClientMsg)
  BY DEF TypeInv, Shapes
<1>2. \A i \in DOMAIN toServer[c] : i \in Nat /\ toServer[c][i] \in ClientMsg
  BY <1>1, ElementOfSeq, LenProperties
<1> QED BY <1>2 DEF ClientMsg

(* So are those of the messages to Python. *)
LEMMA PythonNumbers ==
  ASSUME TypeInv
  PROVE  \A i \in DOMAIN toPython : i \in Nat /\ toPython[i].n \in Nat /\ toPython[i].from \in Client
<1>1. toPython \in Seq(PythonMsg)
  BY DEF TypeInv, Shapes
<1>2. \A i \in DOMAIN toPython : i \in Nat /\ toPython[i] \in PythonMsg
  BY <1>1, ElementOfSeq, LenProperties
<1> QED BY <1>2 DEF PythonMsg, InfoMsg

(* What the server has not read of a client is not overtaken by what the    *)
(* client sends.                                                            *)
LEMMA NoLaterKept ==
  ASSUME TypeInv, [Next]_vars, NEW c \in Client, NEW n \in Nat, NoLater(n, c)
  PROVE  NoLater(n, c)'
<1> DEFINE b == toServer[c]
<1>1. b \in Seq(ClientMsg) /\ reports \in Nat /\ \A i \in DOMAIN b : b[i].n \in Nat
  BY ServerNumbers DEF TypeInv, TypeOK, Shapes
<1>2. CASE toServer'[c] = b /\ reports' \in {reports, reports + 1}
  BY <1>1, <1>2 DEF NoLater
<1>3. CASE toServer'[c] = <<>> /\ reports' = reports
  BY <1>3 DEF NoLater
<1>4. CASE b # <<>> /\ toServer'[c] = Tail(b) /\ reports' = reports
  BY <1>1, <1>4, Taken DEF NoLater
<1>5. ASSUME NEW m \in ClientMsg, toServer'[c] = Append(b, m),
             \/ m.type \notin Reading /\ reports' = reports
             \/ m.n = reports' /\ reports' = reports + 1
      PROVE  NoLater(n, c)'
  <2>1. /\ \A i \in DOMAIN b : Append(b, m)[i] = b[i]
        /\ Append(b, m)[Len(b)+1] = m
        /\ \A i \in DOMAIN Append(b, m) : i \in DOMAIN b \/ i = Len(b) + 1
    BY <1>1, Appended
  <2>2. n <= reports' /\ (m.type \in Reading => n <= m.n)
    BY <1>1, <1>5 DEF NoLater
  <2> QED BY <1>5, <2>1, <2>2 DEF NoLater
<1> QED BY <1>2, <1>3, <1>4, <1>5, ServerSteps

(* Every step keeps ServerOrdered. *)
LEMMA ServerOrderedStep ==
  ASSUME TypeInv, ServerOrdered, [Next]_vars
  PROVE  ServerOrdered'
<1> SUFFICES ASSUME NEW c \in Client, NEW i \in DOMAIN toServer'[c], NEW j \in DOMAIN toServer'[c],
                    toServer'[c][i].type \in Reading
             PROVE  /\ toServer'[c][i].n <= reports'
                    /\ i < j /\ toServer'[c][j].type \in Reading
                         => toServer'[c][i].n <= toServer'[c][j].n
  BY DEF ServerOrdered, Reading
<1> DEFINE b == toServer[c]
<1>1. /\ b \in Seq(ClientMsg) /\ reports \in Nat /\ Len(b) \in Nat /\ DOMAIN b = 1..Len(b)
      /\ \A l \in DOMAIN b : b[l].n \in Nat
  BY ServerNumbers, OwnKeys DEF TypeInv, TypeOK, Shapes
<1>2. CASE toServer'[c] = b /\ reports' \in {reports, reports + 1}
  BY <1>1, <1>2 DEF ServerOrdered
<1>3. CASE b # <<>> /\ toServer'[c] = Tail(b) /\ reports' = reports
  <2>1. /\ i + 1 \in DOMAIN b /\ Tail(b)[i] = b[i+1] /\ i \in Nat
        /\ j + 1 \in DOMAIN b /\ Tail(b)[j] = b[j+1] /\ j \in Nat
    BY <1>1, <1>3, Taken
  <2> QED BY <1>3, <2>1 DEF ServerOrdered
<1>4. ASSUME NEW m \in ClientMsg, toServer'[c] = Append(b, m),
             \/ m.type \notin Reading /\ reports' = reports
             \/ m.n = reports' /\ reports' = reports + 1
      PROVE  /\ toServer'[c][i].n <= reports'
             /\ i < j /\ toServer'[c][j].type \in Reading => toServer'[c][i].n <= toServer'[c][j].n
  <2>1. /\ \A l \in DOMAIN b : Append(b, m)[l] = b[l]
        /\ Append(b, m)[Len(b)+1] = m
        /\ \A l \in DOMAIN Append(b, m) : l \in DOMAIN b \/ l = Len(b) + 1
    BY <1>1, Appended
  <2>2. CASE i = Len(b) + 1
    <3>1. ~(i < j)
      BY <1>1, <1>4, <2>1, <2>2
    <3> QED BY <1>1, <1>4, <2>1, <2>2, <3>1
  <2>3. CASE i \in DOMAIN b /\ j \in DOMAIN b
    BY <1>1, <1>4, <2>1, <2>3 DEF ServerOrdered
  <2>4. CASE i \in DOMAIN b /\ j = Len(b) + 1
    <3>1. toServer'[c][i] = b[i] /\ toServer'[c][j] = m /\ b[i].n <= reports /\ b[i].n \in Nat
      BY <1>1, <1>4, <2>1, <2>4 DEF ServerOrdered
    <3> QED BY <1>1, <1>4, <3>1
  <2> QED BY <1>4, <2>1, <2>2, <2>3, <2>4
<1>5. toServer'[c] # <<>>
  OBVIOUS
<1> QED BY <1>2, <1>3, <1>4, <1>5, ServerSteps

(* A reading that comes to what Python has before it is the first of what   *)
(* the server had of its client.                                            *)
LEMMA ReadingsPassed ==
  ASSUME TypeInv, [Next]_vars, NEW m \in PythonMsg, ToPython(m), m.type \in Reading
  PROVE  \E c \in Client :
           /\ m.from = c /\ toServer[c] # <<>> /\ toServer'[c] = Tail(toServer[c])
           /\ m.type = Head(toServer[c]).type /\ m.n = Head(toServer[c]).n
           /\ reports' = reports
<1> USE DEF clientVars, serverVars, insertVars, pythonVars
<1>1. toPython \in Seq(PythonMsg) /\ toServer \in [Client -> Seq(ClientMsg)]
  BY DEF TypeInv, Shapes
<1>2. toPython' = Append(toPython, m) /\ Len(toPython) \in Nat /\ Len(toPython') = Len(toPython) + 1
  BY <1>1, Appended DEF ToPython
<1>3. \A p \in PythonMsg : ToPython(p) => p = m
  <2> SUFFICES ASSUME NEW p \in PythonMsg, toPython' = Append(toPython, p) PROVE p = m
    BY DEF ToPython
  <2>1. Append(toPython, p)[Len(toPython)+1] = p /\ Append(toPython, m)[Len(toPython)+1] = m
    BY <1>1, Appended
  <2> QED BY <1>2, <2>1
<1>4. toPython' # toPython
  BY <1>2
<1>5. ~(toPython # <<>> /\ Received)
  BY <1>1, <1>2, Taken DEF Received
<1>6. ~UNCHANGED vars /\ ~Web /\ ~Recv /\ ~ListDevices /\ ~Operate /\ ~Stray /\ ~Misread
  BY <1>4, <1>5 DEF vars, Web, Recv, RecvInfo, RecvData, RecvPong, Receiving, AskPending,
                    ListDevices, Operate, Stray, Misread
<1>7. ~ListOne
  <2>1. \A p \in listing : p \in PythonMsg /\ p.type \notin Reading
    BY DEF TypeInv, Shapes, PythonMsg, InfoMsg, Reading
  <2> QED BY <1>3, <2>1 DEF ListOne
<1>8. ASSUME NEW c \in Client PROVE ~Inform(c)
  <2>1. informing[c] # None => \A j \in {informing[c], Junk} :
          Info(j, c) \in PythonMsg /\ Info(j, c).type \notin Reading
    BY DEF Info, PythonMsg, InfoMsg, Reading, TypeInv, Shapes
  <2> QED BY <1>3, <1>4, <2>1 DEF Inform
<1>9. PICK c \in Client : PassOn(c)
  <2>1. ASSUME NEW c \in Client,
               \/ Connect(c) \/ Announce(c) \/ Report(c) \/ Leave(c)
               \/ Insert(c) \/ Enter(c) \/ HangUp(c)
        PROVE  FALSE
    BY <1>4, <2>1 DEF Connect, Announce, Report, Leave, Insert, Enter, HangUp
  <2> QED BY <1>6, <1>7, <1>8, <2>1 DEF Next, Session, Ipc
<1> DEFINE h == Head(toServer[c])
           p == [type |-> h.type, key |-> h.key, from |-> c, n |-> h.n]
<1>10. h \in ClientMsg /\ h.type \in Reading
  <2>1. toServer[c] \in Seq(ClientMsg) /\ toServer[c] # <<>>
    BY <1>1, <1>9 DEF PassOn
  <2> QED BY <1>9, <2>1, Taken DEF PassOn, Reading
<1>11. p \in PythonMsg /\ ToPython(p)
  BY <1>4, <1>9, <1>10 DEF PassOn, ClientMsg, PythonMsg
<1>12. p = m
  BY <1>3, <1>11
<1> QED BY <1>1, <1>9, <1>12 DEF PassOn, Handled

(* What Python keeps changes only when it takes a reading. *)
LEMMA KeptSteps ==
  ASSUME [Next]_vars
  PROVE  UNCHANGED sensor_data \/ RecvData
<1> USE DEF clientVars, serverVars, insertVars, pythonVars
<1>1. ASSUME NEW c \in Client, Connect(c) \/ Announce(c) \/ Report(c) \/ Leave(c) \/ Session(c)
      PROVE  UNCHANGED sensor_data
  BY <1>1 DEF Connect, Announce, Report, Leave, Session, Insert, Enter, Inform, PassOn, HangUp
<1>2. UNCHANGED vars \/ Ipc \/ Misread \/ RecvInfo \/ RecvPong \/ AskPending \/ Web
        => UNCHANGED sensor_data
  BY DEF vars, Ipc, ListDevices, ListOne, Operate, Stray, Misread, RecvInfo, RecvPong,
         AskPending, Web
<1> QED BY <1>1, <1>2 DEF Next, Recv

(* A reading passed on is no earlier than those of its client that Python   *)
(* has before it or keeps, and no later than those the server has.          *)
LEMMA PassedInOrder ==
  ASSUME TypeInv, Ordered, [Next]_vars, NEW m \in PythonMsg, ToPython(m), m.type \in Reading
  PROVE  /\ NoLater(m.n, m.from)'
         /\ \A n \in Nat : NoLater(n, m.from) => n <= m.n
<1>1. PICK c \in Client :
        /\ m.from = c /\ toServer[c] # <<>> /\ toServer'[c] = Tail(toServer[c])
        /\ m.type = Head(toServer[c]).type /\ m.n = Head(toServer[c]).n /\ reports' = reports
  BY ReadingsPassed
<1> DEFINE b == toServer[c]
<1>2. /\ b \in Seq(ClientMsg) /\ Head(b) = b[1] /\ 1 \in DOMAIN b
      /\ \A i \in DOMAIN Tail(b) : i + 1 \in DOMAIN b /\ Tail(b)[i] = b[i+1] /\ i \in Nat \ {0}
  BY <1>1, OwnKeys, Taken
<1>3. \A i \in DOMAIN Tail(b) : 1 < i + 1
  BY <1>2
<1>4. m.n <= reports /\ \A i \in DOMAIN b : 1 < i /\ b[i].type \in Reading => m.n <= b[i].n
  BY <1>1, <1>2 DEF Ordered, ServerOrdered
<1> QED BY <1>1, <1>2, <1>3, <1>4 DEF NoLater

(* Every step keeps PythonOrdered. *)
LEMMA PythonOrderedStep ==
  ASSUME TypeInv, Ordered, [Next]_vars
  PROVE  PythonOrdered'
<1> DEFINE b == toPython
<1>1. /\ b \in Seq(PythonMsg) /\ Len(b) \in Nat /\ DOMAIN b = 1..Len(b)
      /\ \A i \in DOMAIN b : i \in Nat /\ b[i].n \in Nat /\ b[i].from \in Client
  BY PythonNumbers, LenProperties DEF TypeInv, Shapes
<1>2. \A i \in DOMAIN b : b[i].type \in Reading =>
        \A n \in Nat, c \in Client : n = b[i].n /\ c = b[i].from => NoLater(n, c)'
  BY <1>1, NoLaterKept DEF Ordered, PythonOrdered
<1> SUFFICES ASSUME NEW i \in DOMAIN toPython', toPython'[i].type \in Reading,
                    NEW n, n = toPython'[i].n, NEW c, c = toPython'[i].from
             PROVE  /\ NoLater(n, c)'
                    /\ \A j \in DOMAIN toPython' :
                         i < j /\ toPython'[j].type \in Reading /\ toPython'[j].from = c
                           => n <= toPython'[j].n
  BY DEF PythonOrdered, NoLater, Reading
<1>3. CASE UNCHANGED toPython
  BY <1>1, <1>2, <1>3 DEF Ordered, PythonOrdered
<1>4. ASSUME NEW m \in PythonMsg, ToPython(m)
      PROVE  /\ NoLater(n, c)'
             /\ \A j \in DOMAIN toPython' :
                  i < j /\ toPython'[j].type \in Reading /\ toPython'[j].from = c
                    => n <= toPython'[j].n
  <2>1. /\ \A l \in DOMAIN b : toPython'[l] = b[l]
        /\ toPython'[Len(b)+1] = m
        /\ \A l \in DOMAIN toPython' : l \in DOMAIN b \/ l = Len(b) + 1
    BY <1>1, <1>4, Appended DEF ToPython
  <2>2. CASE i \in DOMAIN b
    <3>1. n = b[i].n /\ c = b[i].from /\ b[i].type \in Reading /\ NoLater(n, c)
      BY <2>1, <2>2 DEF Ordered, PythonOrdered
    <3>2. m.type \in Reading /\ m.from = c => n <= m.n
      BY <1>1, <1>4, <2>2, <3>1, PassedInOrder
    <3> QED BY <1>1, <1>2, <2>1, <2>2, <3>1, <3>2 DEF Ordered, PythonOrdered
  <2>3. CASE i = Len(b) + 1
    <3>1. \A j \in DOMAIN toPython' : ~(i < j)
      BY <1>1, <2>1, <2>3
    <3>2. m.n = n /\ m.from = c /\ m.type \in Reading
      BY <2>1, <2>3
    <3>3. \A k, d : k = m.n /\ d = m.from => NoLater(k, d)'
      BY <1>4, <3>2, PassedInOrder
    <3> QED BY <3>1, <3>2, <3>3
  <2> QED BY <2>1, <2>2, <2>3
<1>5. CASE toPython # <<>> /\ Received
  <2>1. \A l \in DOMAIN toPython' : l + 1 \in DOMAIN b /\ toPython'[l] = b[l+1] /\ l \in Nat
    BY <1>1, <1>5, Taken DEF Received
  <2>2. n = b[i+1].n /\ c = b[i+1].from /\ b[i+1].type \in Reading
    BY <2>1
  <2>3. \A j \in DOMAIN toPython' : i < j => i + 1 < j + 1
    BY <2>1
  <2> QED BY <1>1, <1>2, <2>1, <2>2, <2>3 DEF Ordered, PythonOrdered
<1> QED BY <1>3, <1>4, <1>5, PythonSteps

(* A reading Python takes replaces the one it keeps only if that is of      *)
(* another client, or no later.                                             *)
LEMMA RecvDataInOrder ==
  ASSUME TypeInv, Ordered, RecvData
  PROVE  LET m == Head(toPython)
         IN /\ m.type \in Reading /\ m.key \in Key /\ m.n \in Nat /\ m.from \in Client
            /\ sensor_data' \in {sensor_data, [sensor_data EXCEPT ![m.key] = [from |-> m.from, n |-> m.n]]}
            /\ \A k \in Key : sensor_data[k].from = m.from => sensor_data[k].n <= m.n
<1> DEFINE m == Head(toPython)
<1>1. m = toPython[1] /\ 1 \in DOMAIN toPython /\ m \in PythonMsg /\ m.type = "SENSOR_DATA"
  BY Taken DEF TypeInv, Shapes, RecvData, Receiving
<1>2. m.type \in Reading /\ m.key \in Key /\ m.n \in Nat /\ m.from \in Client
  BY <1>1 DEF PythonMsg, InfoMsg, Reading
<1>3. \A k \in Key : sensor_data[k].from = m.from => sensor_data[k].n <= m.n
  BY <1>1, <1>2, KeyAssumption DEF Ordered, KeptOrdered
<1> QED BY <1>2, <1>3 DEF RecvData

(* Every step keeps KeptOrdered. *)
LEMMA KeptOrderedStep ==
  ASSUME TypeInv, Ordered, [Next]_vars
  PROVE  KeptOrdered'
<1> DEFINE b == toPython
<1>1. /\ b \in Seq(PythonMsg) /\ Len(b) \in Nat /\ DOMAIN b = 1..Len(b)
      /\ \A i \in DOMAIN b : i \in Nat /\ b[i].n \in Nat /\ b[i].from \in Client
      /\ sensor_data \in [Key -> [from : Client \cup {None}, n : Nat]]
  BY PythonNumbers, LenProperties DEF TypeInv, TypeOK, Shapes
<1> SUFFICES ASSUME NEW k \in Key, NEW n, n = sensor_data'[k].n,
                    NEW c, c = sensor_data'[k].from, c # None
             PROVE  /\ NoLater(n, c)'
                    /\ \A j \in DOMAIN toPython' :
                         toPython'[j].type \in Reading /\ toPython'[j].from = c => n <= toPython'[j].n
  BY DEF KeptOrdered, NoLater, Reading
<1>2. CASE UNCHANGED sensor_data
  <2>1. n \in Nat /\ c \in Client /\ n = sensor_data[k].n /\ c = sensor_data[k].from
    BY <1>1, <1>2
  <2>2. /\ NoLater(n, c)
        /\ \A j \in DOMAIN b : b[j].type \in Reading /\ b[j].from = c => n <= b[j].n
    BY <2>1 DEF Ordered, KeptOrdered
  <2>3. NoLater(n, c)'
    BY <2>1, <2>2, NoLaterKept
  <2>4. CASE UNCHANGED toPython
    BY <2>2, <2>3, <2>4
  <2>5. ASSUME NEW m \in PythonMsg, ToPython(m)
        PROVE  \A j \in DOMAIN toPython' :
                 toPython'[j].type \in Reading /\ toPython'[j].from = c => n <= toPython'[j].n
    <3>1. /\ \A l \in DOMAIN b : toPython'[l] = b[l]
          /\ toPython'[Len(b)+1] = m
          /\ \A l \in DOMAIN toPython' : l \in DOMAIN b \/ l = Len(b) + 1
      BY <1>1, <2>5, Appended DEF ToPython
    <3>2. m.type \in Reading /\ m.from = c => n <= m.n
      BY <2>1, <2>2, <2>5, PassedInOrder
    <3> QED BY <2>2, <3>1, <3>2
  <2>6. CASE toPython # <<>> /\ Received
    <3>1. \A l \in DOMAIN toPython' : l + 1 \in DOMAIN b /\ toPython'[l] = b[l+1]
      BY <1>1, <2>6, Taken DEF Received
    <3> QED BY <2>2, <2>3, <3>1
  <2> QED BY <2>3, <2>4, <2>5, <2>6, PythonSteps
<1>3. CASE RecvData
  <2> DEFINE m == Head(b)
  <2>1. b # <<>> /\ Received
    BY <1>3 DEF RecvData, Receiving
  <2>2. /\ m = b[1] /\ 1 \in DOMAIN b
        /\ \A l \in DOMAIN toPython' : l + 1 \in DOMAIN b /\ toPython'[l] = b[l+1] /\ l \in Nat \ {0}
    BY <1>1, <2>1, Taken DEF Received
  <2>3. /\ m.type \in Reading /\ m.key \in Key /\ m.n \in Nat /\ m.from \in Client
        /\ sensor_data' \in {sensor_data, [sensor_data EXCEPT ![m.key] = [from |-> m.from, n |-> m.n]]}
    BY <1>3, RecvDataInOrder
  <2>4. CASE sensor_data' # sensor_data /\ k = m.key
    <3>1. n = m.n /\ c = m.from
      BY <1>1, <2>3, <2>4
    <3>2. /\ NoLater(n, c)
          /\ \A j \in DOMAIN b : 1 < j /\ b[j].type \in Reading /\ b[j].from = c => n <= b[j].n
      BY <2>2, <2>3, <3>1 DEF Ordered, PythonOrdered
    <3>3. \A l \in DOMAIN toPython' : 1 < l + 1
      BY <2>2
    <3> QED BY <2>2, <2>3, <3>1, <3>2, <3>3, NoLaterKept
  <2>5. CASE ~(sensor_data' # sensor_data /\ k = m.key)
    <3>1. n \in Nat /\ c \in Client /\ n = sensor_data[k].n /\ c = sensor_data[k].from
      BY <1>1, <2>3, <2>5
    <3>2. /\ NoLater(n, c)
          /\ \A j \in DOMAIN b : b[j].type \in Reading /\ b[j].from = c => n <= b[j].n
      BY <3>1 DEF Ordered, KeptOrdered
    <3> QED BY <2>2, <3>1, <3>2, NoLaterKept
  <2> QED BY <2>4, <2>5
<1> QED BY <1>2, <1>3, KeptSteps

(* Readings are in order wherever they are. *)
LEMMA OrderInvariant == Spec => []Ordered
<1>1. Init => Ordered
  BY DEF Init, NoReading, Ordered, ServerOrdered, PythonOrdered, KeptOrdered
<1>2. TypeInv /\ Ordered /\ [Next]_vars => Ordered'
  BY ServerOrderedStep, PythonOrderedStep, KeptOrderedStep DEF Ordered
<1> QED BY <1>1, <1>2, TypeInvariant, PTL DEF Spec

(* In a step, what Python keeps of a sensor is not replaced by an earlier   *)
(* reading of the same client.                                              *)
LEMMA KeptInOrder ==
  ASSUME TypeInv, Ordered, [Next]_vars, NEW k \in Key,
         sensor_data'[k].from = sensor_data[k].from
  PROVE  sensor_data'[k].n >= sensor_data[k].n
<1>1. sensor_data \in [Key -> [from : Client \cup {None}, n : Nat]]
  BY DEF TypeInv, TypeOK
<1>2. CASE UNCHANGED sensor_data
  BY <1>1, <1>2
<1>3. CASE RecvData
  BY <1>1, <1>3, RecvDataInOrder
<1> QED BY <1>2, <1>3, KeptSteps

-----------------------------------------------------------------------------
(* The theorems. *)

(* Every variable has its type, and no buffer holds more than it can.       *)
THEOREM TypeCorrect == Spec => []TypeOK
BY TypeInvariant, PTL DEF TypeInv

(* Whatever Python knows, it asks the server for operations of a client     *)
(* that has the device.                                                     *)
THEOREM AsksOwners == Spec => []NamesOwner
BY OwnerInvariant, PTL DEF OwnerInv, Owners

(* Python asks for the operations of a scenario only when every sensor of   *)
(* it that is in the list has a reading, of a client that has this sensor,  *)
(* that meets its condition.                                                *)
THEOREM ScenariosHold == Spec => []ScenarioSound
<1>1. Init => ScenarioSound
  BY DEF Init, ScenarioSound
<1>2. OwnerInv /\ OwnerInv' /\ ScenarioSound /\ [Next]_vars => ScenarioSound'
  BY SoundStep
<1> QED BY <1>1, <1>2, OwnerInvariant, PTL DEF Spec

(* When nothing is on its way, Python's list has the keys of the            *)
(* repository; no others, and the owner of each that only one client        *)
(* registers, if no two sessions have inserted at once; nor does the server *)
(* then die of a freed device, without such keys.                           *)
THEOREM ListsAgree == Spec => []QuietAgree
<1>1. Init => Agreeing
  <2> SUFFICES ASSUME Init PROVE Agreeing
    OBVIOUS
  <2>1. \A k \in Key \cup {Junk} : ~Known(k) /\ ~ToldOf(k)
    BY DEF Init, Known, ToldOf
  <2>2. \A k \in Key : ~Mentioned(k) /\ repository[k] = None
    BY <2>1, KeyAssumption DEF Init, Mentioned
  <2> QED BY <2>1, <2>2 DEF Init, Agreeing, Freed
<1>2. OwnerInv /\ Agreeing /\ [Next]_vars => Agreeing'
  BY AgreeingStep
<1> QED BY <1>1, <1>2, AgreeWhenQuiet, OwnerInvariant, PTL DEF Spec

(* Readings come to Python after it has heard of their device.              *)
THEOREM DevicesFirst == Spec => []KnownBeforeData
BY AnnounceInvariant, PTL DEF AnnounceInv

(* A reading never replaces a later one of the same client and sensor.      *)
THEOREM LatestKept == Spec => DataInOrder
<1>1. TypeInv /\ Ordered /\ [Next]_vars =>
        [\A k \in Key : sensor_data'[k].from = sensor_data[k].from
                          => sensor_data'[k].n >= sensor_data[k].n]_vars
  BY KeptInOrder
<1> QED BY <1>1, TypeInvariant, OrderInvariant, PTL DEF Spec, DataInOrder

-----------------------------------------------------------------------------
(* Standstills. *)

(* Messages of a type that somebody reads go on, when the threads that read *)
(* and the buffers they write to are free.                                  *)
LEMMA TypesRead ==
  ASSUME TypeInv
  PROVE  /\ \A c \in Client : toServer[c] # <<>> =>
              \E type \in {"REGISTER_DEVICE", "SENSOR_DATA", "PONG"} : Got(c, type)
         /\ toPython # <<>> => Head(toPython).type \in {"IPC_RESP_DEVICE_INFO", "SENSOR_DATA", "PONG"}
         /\ fromPython # <<>> =>
              Head(fromPython).type \in {"IPC_REQ_ALL_DEVICE_INFO"} \cup Operation
<1> USE DEF TypeInv, Shapes
<1>1. ASSUME NEW c \in Client, toServer[c] # <<>>
      PROVE  \E type \in {"REGISTER_DEVICE", "SENSOR_DATA", "PONG"} : Got(c, type)
  <2>1. Head(toServer[c]) \in ClientMsg
    BY <1>1, HeadTailProperties
  <2> QED BY <1>1, <2>1 DEF ClientMsg, Reading, Got
<1>2. ASSUME toPython # <<>>
      PROVE  Head(toPython).type \in {"IPC_RESP_DEVICE_INFO", "SENSOR_DATA", "PONG"}
  <2>1. Head(toPython) \in PythonMsg
    BY <1>2, HeadTailProperties
  <2> QED BY <2>1 DEF PythonMsg, InfoMsg, Reading
<1>3. ASSUME fromPython # <<>>
      PROVE  Head(fromPython).type \in {"IPC_REQ_ALL_DEVICE_INFO"} \cup Operation
  <2>1. Head(fromPython) \in RequestMsg
    BY <1>3, HeadTailProperties
  <2> QED BY <2>1 DEF RequestMsg
<1> QED BY <1>1, <1>2, <1>3

(* However small the buffers are and whatever is in them, the only          *)
(* standstill between the sessions, the IPC thread and Python's receive     *)
(* thread is that both buffers are full while the server lists devices and  *)
(* Python asks for operations (ipc.cpp:114, ipc.py:246), unless an          *)
(* exception has ended the receive thread or an operation was sent short.   *)
THEOREM NoOtherStandstill == Spec => []OnlyClogs
<1>1. Init => connected \subseteq listed
  BY DEF Init
<1>2. connected \subseteq listed /\ [Next]_vars => (connected \subseteq listed)'
  BY DEF Next, Connect, Announce, Report, Leave, Session, Insert, Enter, Inform, PassOn,
         HangUp, Ipc, ListDevices, ListOne, Operate, Stray, Misread, Recv, RecvInfo, RecvData,
         RecvPong, AskPending, Web, vars, clientVars, serverVars, insertVars, pythonVars
<1>3. TypeInv /\ connected \subseteq listed => OnlyClogs
  <2> SUFFICES ASSUME TypeInv, connected \subseteq listed, up, ~raised, ~Uneven,
                      ~IpcGoesOn, ~RecvGoesOn, \A c \in Client : ~SessionGoesOn(c)
               PROVE  Quiet \/ Clogged
    BY DEF OnlyClogs
  <2>1. Full(toPython) => toPython # <<>>
    BY CapacityAssumption, EmptySeq DEF Full
  <2>2. Full(fromPython) => fromPython # <<>>
    BY CapacityAssumption, EmptySeq DEF Full
  <2>3. fromPython = <<>> \/ listing # {}
    <3>1. fromPython # <<>> => Head(fromPython).type # "UNEVEN" /\ ~astray
      BY HeadTailProperties, EmptySeq, LenProperties DEF Uneven, TypeInv, Shapes
    <3> QED BY <3>1, TypesRead DEF IpcGoesOn, Asked, Operation
  <2>4. toPython = <<>> \/ pending # {}
    BY TypesRead DEF RecvGoesOn, Receiving
  <2>5. pending # {} => Full(fromPython)
    BY DEF RecvGoesOn
  <2>6. listing # {} => Full(toPython)
    BY DEF IpcGoesOn, Room
  <2>7. CASE Full(toPython)
    BY <2>1, <2>2, <2>3, <2>4, <2>5, <2>7 DEF Clogged
  <2>8. CASE ~Full(toPython)
    <3>1. listing = {} /\ fromPython = <<>> /\ pending = {} /\ toPython = <<>>
      BY <2>2, <2>3, <2>4, <2>5, <2>6, <2>8
    <3>2. ASSUME NEW c \in Client
          PROVE  /\ entering[c] = None /\ informing[c] = None /\ toServer[c] = <<>> /\ (c \in listed => c \in connected)
      <4>1. entering[c] = None /\ informing[c] = None
        BY <2>8 DEF SessionGoesOn, Room
      <4>2. toServer[c] = <<>>
        BY <2>8, <4>1, TypesRead DEF SessionGoesOn, Room, Idle
      <4> QED BY <4>1, <4>2 DEF SessionGoesOn, Idle
    <3>3. listed = connected
      BY <3>2 DEF TypeInv, TypeOK
    <3> QED BY <3>1, <3>2, <3>3 DEF Quiet
  <2> QED BY <2>7, <2>8
<1> QED BY <1>1, <1>2, <1>3, TypeInvariant, PTL DEF Spec
=============================================================================
