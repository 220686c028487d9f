------------------------------ MODULE Automation ------------------------------
(****************************************************************************)
(* From a sensor to an actuator: clients report devices and readings; a     *)
(* session thread for each of them enters devices in the repository and     *)
(* passes everything on to Python (Manager::handle_message); Python's       *)
(* receive thread keeps a list of devices, checks scenarios and asks for    *)
(* operations, and so does its web thread; the IPC thread of the server     *)
(* answers Python and takes operations from it (IPC::handle_message).       *)
(*                                                                          *)
(* A message is sent and read as a whole (Framing), but for operations that *)
(* are not as long as announced; an ID has one session at a time            *)
(* (SessionServer).  The repository keeps the last device of each key; when *)
(* two sessions insert at once it may lose devices, and the server may die  *)
(* (DevTree has how), and of two of one key left behind one is followed.    *)
(* Which client an operation reaches is SessionServer's matter.  The two    *)
(* buffers between the server and Python may fill.  When the server has     *)
(* died the model stops.  A reading is known by its number, which is its    *)
(* value too.                                                               *)
(****************************************************************************)
EXTENDS Naturals, Sequences, Functions

CONSTANTS Client,       \* IDs of clients
          Key,          \* the keys (address and ID) of devices
          Sensor,       \* those of sensors; the others are actuators
          Junk,         \* what Python makes of the bytes of a freed device
          Configs,      \* the lists of devices clients may have
          Scenario,     \* the scenarios Python may have
          Loaded,       \* those it starts with
          NotNumber,    \* a value that int() does not take
          Capacity,     \* messages a socket buffer holds
          MaxReports,   \* bound: readings and PONGs clients send
          MaxExtras,    \* bound: losses of connections and acts of the web thread
          None          \* no client, no device

(* An operation whose bytes are as many as announced; one that has fewer,   *)
(* for a TEXT or for what is no actuator; one on whose value int() or       *)
(* to_bytes() raises an exception when the header has been sent.            *)
Kinds == {"whole", "uneven", "raising"}

ASSUME KeyAssumption == Sensor \subseteq Key /\ Junk \notin Key /\ None \notin Client \cup Key
ASSUME ConfigAssumption == \A d \in Configs : d \in [Client -> Seq(Key)]
ASSUME ScenarioAssumption ==
  /\ Loaded \subseteq Scenario
  /\ \A sc \in Scenario : /\ \A i \in DOMAIN sc.sensors : sc.sensors[i].key \in Key
                          /\ sc.actuators \subseteq [key : Key, kind : Kinds]
ASSUME CapacityAssumption == Capacity \in Nat \ {0}
ASSUME BoundAssumption == MaxReports \in Nat /\ MaxExtras \in Nat

VARIABLES
  devices,     \* Controller::deviceList of each client
  connected,   \* the clients that are connected
  told,        \* the messages each has sent on this connection
  reports,     \* readings and PONGs sent so far
  leaves,      \* connections lost so far
  web,         \* requests of the web thread so far
  up,          \* the server lives
  toServer,    \* what each client sent and its session has not handled
  listed,      \* the clients that have an entry in session_list_
  entering,    \* the device each session is inserting
  crossed,     \* two sessions have inserted at once
  informing,   \* the device a session has entered and not yet passed on
  repository,  \* the owner of the device of each key
  listing,     \* the devices the IPC thread still lists, with their owners
  astray,      \* the IPC thread does not read messages from their beginnings
  toPython, fromPython,  \* the connection of the server and Python
  deviceList,  \* the owner Python knows of each device
  sensor_data, \* the last reading of each device, and who sent it
  scenarios,   \* Python's scenarios
  raised,      \* an exception has ended the receive thread
  pending      \* operations the receive thread has still to ask for

clientVars == <<devices, connected, told, reports, leaves, toServer>>
insertVars == <<entering, crossed>>
serverVars == <<up, listed, insertVars, informing, repository, listing, astray>>
pythonVars == <<web, deviceList, sensor_data, scenarios, raised, pending>>
vars == <<clientVars, serverVars, pythonVars, toPython, fromPython>>

NoReading == [from |-> None, n |-> 0]

Init == /\ devices \in Configs
        /\ connected = {}
        /\ told = [c \in Client |-> 0]
        /\ reports = 0 /\ leaves = 0 /\ web = 0
        /\ up = TRUE
        /\ toServer = [c \in Client |-> <<>>]
        /\ listed = {}
        /\ entering = [c \in Client |-> None] /\ crossed = FALSE
        /\ informing = [c \in Client |-> None]
        /\ repository = [k \in Key |-> None]
        /\ listing = {} /\ astray = FALSE
        /\ toPython = <<>> /\ fromPython = <<>>
        /\ deviceList = [k \in Key \cup {Junk} |-> None]
        /\ sensor_data = [k \in Key |-> NoReading]
        /\ scenarios = Loaded
        /\ raised = FALSE
        /\ pending = {}

Has(c) == Range(devices[c])
Full(buffer) == Len(buffer) >= Capacity

-----------------------------------------------------------------------------
(* The clients. *)

(* A client connects and is registered, when nothing of its last session is *)
(* left (otherwise it is refused and ends).                                 *)
Connect(c) == /\ up /\ c \notin connected /\ c \notin listed
              /\ connected' = connected \cup {c}
              /\ listed' = listed \cup {c}
              /\ told' = [told EXCEPT ![c] = 0]
              /\ UNCHANGED <<devices, reports, leaves, toServer, up, insertVars, informing,
                             repository, listing, astray, pythonVars, toPython, fromPython>>

(* The client goes through its list, again and again. *)
NextDevice(c) == devices[c][(told[c] % Len(devices[c])) + 1]
Tell(c, type, n) ==
  /\ told' = [told EXCEPT ![c] = @ + 1]
  /\ toServer' = [toServer EXCEPT ![c] =
       Append(@, [type |-> type, key |-> NextDevice(c), n |-> n])]

(* Controller::register_device, on the first round. *)
Announce(c) == /\ up /\ c \in connected /\ told[c] < Len(devices[c])
               /\ Tell(c, "REGISTER_DEVICE", 0)
               /\ UNCHANGED <<devices, connected, reports, leaves, serverVars, pythonVars,
                              toPython, fromPython>>

(* Controller::sensor_data_routine, on the others. *)
Report(c) == /\ up /\ c \in connected /\ told[c] >= Len(devices[c])
             /\ devices[c] # <<>> /\ reports < MaxReports
             /\ reports' = reports + 1
             /\ Tell(c, IF NextDevice(c) \in Sensor THEN "SENSOR_DATA" ELSE "PONG", reports')
             /\ UNCHANGED <<devices, connected, leaves, serverVars, pythonVars, toPython,
                            fromPython>>

(* What has not been read may be lost with the connection. *)
Leave(c) == /\ up /\ c \in connected /\ leaves + web < MaxExtras
            /\ leaves' = leaves + 1
            /\ connected' = connected \ {c}
            /\ toServer' \in {toServer, [toServer EXCEPT ![c] = <<>>]}
            /\ UNCHANGED <<devices, told, reports, serverVars, pythonVars, toPython,
                           fromPython>>

-----------------------------------------------------------------------------
(* The session threads: Manager::handle_message. *)

Idle(c) == up /\ entering[c] = None /\ informing[c] = None
Got(c, type) == toServer[c] # <<>> /\ Head(toServer[c]).type = type
Handled(c) == toServer' = [toServer EXCEPT ![c] = Tail(@)]

(* Mutant: send() does not wait for space in the buffer. *)
ToPythonAtOnce(m) == toPython' = Append(toPython, m)

ToPython(m) == ~Full(toPython) /\ toPython' = Append(toPython, m)

(* The session begins to insert its device: it looks for another of its     *)
(* key, takes that out, and appends its own; there is no lock.              *)
Insert(c) == /\ Idle(c) /\ Got(c, "REGISTER_DEVICE")
             /\ entering' = [entering EXCEPT ![c] = Head(toServer[c]).key]
             /\ crossed' = (crossed \/ \E d \in Client : entering[d] # None)
             /\ Handled(c)
             /\ UNCHANGED <<devices, connected, told, reports, leaves, up, listed, informing,
                            repository, listing, astray, pythonVars, toPython, fromPython>>

(* The device is in the place of the last one of its key, which is freed.   *)
(* If inserts have crossed, it may be missing, or another one.              *)
Placed(k, c) == repository' = [repository EXCEPT ![k] = c]
Misplaced(k, c) ==
  \E d \in {c, repository[k]}, lost \in Key \cup {None} :
    repository' = [j \in Key |-> IF j = lost THEN None ELSE IF j = k THEN d ELSE repository[j]]
Enter(c) == /\ up /\ entering[c] # None
            /\ \/ Placed(entering[c], c) /\ UNCHANGED up
               \/ crossed /\ Misplaced(entering[c], c) /\ UNCHANGED up
               \/ crossed /\ up' = FALSE /\ UNCHANGED repository
            /\ entering' = [entering EXCEPT ![c] = None]
            /\ informing' = [informing EXCEPT ![c] = entering[c]]
            /\ UNCHANGED <<clientVars, listed, crossed, listing, astray, pythonVars, toPython,
                           fromPython>>

Info(k, c) == [type |-> "IPC_RESP_DEVICE_INFO", key |-> k, from |-> c, n |-> 0]

(* Mutant: Python hears of a device only when it asks for all of them. *)
InformNot(c) == /\ up /\ informing[c] # None
                /\ informing' = [informing EXCEPT ![c] = None]
                /\ UNCHANGED <<clientVars, up, listed, insertVars, repository, listing, astray,
                               pythonVars, toPython, fromPython>>

(* Mutant: rawpDev is a member of the manager, and another session sets it. *)
InformOfLast(c) == /\ up /\ informing[c] # None
                   /\ \E d \in Client : informing[d] # None /\ ToPython(Info(informing[d], c))
                   /\ informing' = [informing EXCEPT ![c] = None]
                   /\ UNCHANGED <<clientVars, up, listed, insertVars, repository, listing,
                                  astray, pythonVars, fromPython>>

(* rawpDev is used again; if another session has replaced it, it is freed,  *)
(* and the server dies or sends what is there now.                          *)
Inform(c) == /\ up /\ informing[c] # None
             /\ LET k == informing[c]
                IN \/ ToPython(Info(k, c)) /\ UNCHANGED up
                   \/ /\ repository[k] # c
                      /\ \/ ToPython(Info(Junk, c)) /\ UNCHANGED up
                         \/ up' = FALSE /\ UNCHANGED toPython
             /\ informing' = [informing EXCEPT ![c] = None]
             /\ UNCHANGED <<clientVars, listed, insertVars, repository, listing, astray,
                            pythonVars, fromPython>>

(* Mutant: a thread is created for each message, as the comment after       *)
(* handle_message in session.cpp has it; the next message may overtake.     *)
PassAnyOn(c) == /\ Idle(c) /\ toServer[c] # <<>>
                /\ \E i \in DOMAIN toServer[c] :
                     LET m == toServer[c][i]
                     IN /\ m.type \in {"SENSOR_DATA", "PONG"}
                        /\ repository[m.key] # None
                        /\ ToPython([type |-> m.type, key |-> m.key, from |-> c, n |-> m.n])
                        /\ toServer' = [toServer EXCEPT ![c] =
                             SubSeq(@, 1, i - 1) \o SubSeq(@, i + 1, Len(@))]
                /\ UNCHANGED <<devices, connected, told, reports, leaves, serverVars,
                               pythonVars, fromPython>>

(* SENSOR_DATA and PONG go to Python if the repository has the device. *)
PassOn(c) == /\ Idle(c) /\ toServer[c] # <<>>
             /\ LET m == Head(toServer[c])
                IN /\ m.type \in {"SENSOR_DATA", "PONG"}
                   /\ IF repository[m.key] = None THEN UNCHANGED toPython
                      ELSE ToPython([type |-> m.type, key |-> m.key, from |-> c, n |-> m.n])
             /\ Handled(c)
             /\ UNCHANGED <<devices, connected, told, reports, leaves, serverVars,
                            pythonVars, fromPython>>

(* The client has gone: the session leaves the list. *)
HangUp(c) == /\ Idle(c) /\ c \in listed \ connected /\ toServer[c] = <<>>
             /\ listed' = listed \ {c}
             /\ UNCHANGED <<clientVars, up, insertVars, informing, repository, listing, astray,
                            pythonVars, toPython, fromPython>>

Session(c) == Insert(c) \/ Enter(c) \/ Inform(c) \/ PassOn(c) \/ HangUp(c)

-----------------------------------------------------------------------------
(* The IPC thread: IPC::handle_message. *)

(* Mutant: a request is taken only when there is room for an answer. *)
AskedWithRoom(type) == /\ up /\ ~astray /\ listing = {} /\ ~Full(toPython)
                       /\ fromPython # <<>> /\ Head(fromPython).type = type

Asked(type) == /\ up /\ ~astray /\ listing = {}
               /\ fromPython # <<>> /\ Head(fromPython).type = type
TakenOff == fromPython' = Tail(fromPython)

(* A copy of the list, which is sent device by device. *)
TakeList == listing' = {Info(k, repository[k]) : k \in {j \in Key : repository[j] # None}}

ListDevices == /\ Asked("IPC_REQ_ALL_DEVICE_INFO")
               /\ TakeList /\ TakenOff
               /\ UNCHANGED <<clientVars, up, listed, insertVars, informing, repository, astray,
                              pythonVars, toPython>>

(* Mutant: the loop stays at the first device. *)
ListSame == /\ up
            /\ \E m \in listing : ToPython(m)
            /\ UNCHANGED <<clientVars, serverVars, pythonVars, fromPython>>

ListOne == /\ up
           /\ \E m \in listing : ToPython(m) /\ listing' = listing \ {m}
           /\ UNCHANGED <<clientVars, up, listed, insertVars, informing, repository, astray,
                          pythonVars, fromPython>>

(* The operation is written to the session of the ID Python names, or       *)
(* dropped if there is none or no such device.                              *)
Operate == /\ Asked("REQ_ACTUATOR_OPERATION")
           /\ TakenOff
           /\ UNCHANGED <<clientVars, serverVars, pythonVars, toPython>>

(* A message that ends too soon: what is there is taken, but if the next    *)
(* has come it is read as the rest of this one, and so on; such a thread    *)
(* may take anything for a request, or wait.                                *)
Stray == /\ Asked("UNEVEN")
         /\ astray' \in BOOLEAN
         /\ TakenOff
         /\ UNCHANGED <<clientVars, up, listed, insertVars, informing, repository, listing,
                        pythonVars, toPython>>
Misread == /\ up /\ astray /\ listing = {} /\ fromPython # <<>>
           /\ TakeList \/ UNCHANGED listing
           /\ TakenOff
           /\ UNCHANGED <<clientVars, up, listed, insertVars, informing, repository, astray,
                          pythonVars, toPython>>

Ipc == ListDevices \/ ListOne \/ Operate \/ Stray

-----------------------------------------------------------------------------
(* Python. *)

Known(k) == deviceList[k] # None

FromPython(type, k, c) ==
  /\ ~Full(fromPython)
  /\ fromPython' = Append(fromPython, [type |-> type, key |-> k, from |-> c])

Compare(x, operator, value) == CASE operator = "=" -> x = value
                                 [] operator = "<" -> x < value
                                 [] operator = ">" -> x > value

(* A reading of a sensor of a scenario is there, and meets its condition.   *)
HasData(x, data) == Known(x.key) /\ data[x.key].from # None
Met(x, data) == /\ HasData(x, data) /\ x.value # NotNumber
                /\ Compare(data[x.key].n, x.operator, x.value)

(* Mutant: the sensors of a scenario are tied by an or. *)
CheckAnySensor(sc, data) == \E i \in DOMAIN sc.sensors : Met(sc.sensors[i], data)

(* Scenario.check_scenario: sensors that are not in the list pass. *)
CheckScenario(sc, data) ==
  \A i \in DOMAIN sc.sensors : Known(sc.sensors[i].key) => Met(sc.sensors[i], data)

(* It gets to a value that is not a number, and int() raises an exception.  *)
Raises(sc, data) ==
  \E i \in DOMAIN sc.sensors :
    /\ HasData(sc.sensors[i], data) /\ sc.sensors[i].value = NotNumber
    /\ \A j \in 1..i - 1 : Known(sc.sensors[j].key) => Met(sc.sensors[j], data)

(* ScenarioList.check_scenario_list: the scenarios with that sensor that    *)
(* hold; of their actuators, those in the list are operated.                *)
Concerned(k) == {sc \in scenarios : \E i \in DOMAIN sc.sensors : sc.sensors[i].key = k}
Triggered(k, data) ==
  UNION {{[scenario |-> sc, actuator |-> a] : a \in {j \in sc.actuators : Known(j.key)}} :
           sc \in {x \in Concerned(k) : CheckScenario(x, data)}}

Receiving(type) == up /\ ~raised /\ pending = {} /\ toPython # <<>> /\ Head(toPython).type = type
Received == toPython' = Tail(toPython)

(* DeviceList.insert: the first device of a key stays. *)
RecvInfo == /\ Receiving("IPC_RESP_DEVICE_INFO")
            /\ LET m == Head(toPython)
               IN deviceList' = IF Known(m.key) THEN deviceList
                                ELSE [deviceList EXCEPT ![m.key] = m.from]
            /\ Received
            /\ UNCHANGED <<clientVars, serverVars, web, sensor_data, scenarios, raised, pending,
                           fromPython>>

RecvData == /\ Receiving("SENSOR_DATA")
            /\ LET m == Head(toPython)
               IN /\ sensor_data' = IF Known(m.key)
                       THEN [sensor_data EXCEPT ![m.key] = [from |-> m.from, n |-> m.n]]
                       ELSE sensor_data
                  /\ raised' = \E sc \in Concerned(m.key) : Raises(sc, sensor_data')
                  /\ pending' = IF raised' THEN {} ELSE Triggered(m.key, sensor_data')
            /\ Received
            /\ UNCHANGED <<clientVars, serverVars, web, deviceList, scenarios, fromPython>>

(* PONG sets last_updated_time. *)
RecvPong == /\ Receiving("PONG") /\ Received
            /\ UNCHANGED <<clientVars, serverVars, pythonVars, fromPython>>

(* set_actuator_operation. *)
AskFor(k, kind) ==
  FromPython(IF kind = "whole" THEN "REQ_ACTUATOR_OPERATION" ELSE "UNEVEN", k, deviceList[k])

(* The receive thread asks for the operations of the scenarios, and ends    *)
(* when one raises an exception.                                            *)
AskPending == /\ up
              /\ \E p \in pending :
                   /\ AskFor(p.actuator.key, p.actuator.kind)
                   /\ raised' = (p.actuator.kind = "raising")
                   /\ pending' = IF raised' THEN {} ELSE pending \ {p}
              /\ UNCHANGED <<clientVars, serverVars, web, deviceList, sensor_data, scenarios,
                             toPython>>

Recv == RecvInfo \/ RecvData \/ RecvPong \/ AskPending

(* The web thread: get_all_device_info, and set_actuator_operation of a     *)
(* device find_device_by_addrid found.                                      *)
WebAsks == /\ \/ FromPython("IPC_REQ_ALL_DEVICE_INFO", None, None)
              \/ \E k \in Key, kind \in Kinds : Known(k) /\ AskFor(k, kind)
           /\ UNCHANGED scenarios

(* add_scenario: what the user typed is not checked. *)
AddScenario == /\ \E sc \in Scenario : scenarios' = scenarios \cup {sc}
               /\ UNCHANGED fromPython

Web == /\ up /\ leaves + web < MaxExtras
       /\ web' = web + 1
       /\ WebAsks \/ AddScenario
       /\ UNCHANGED <<clientVars, serverVars, deviceList, sensor_data, raised, pending,
                      toPython>>

Next == \/ \E c \in Client : Connect(c) \/ Announce(c) \/ Report(c) \/ Leave(c) \/ Session(c)
        \/ Ipc \/ Misread \/ Recv \/ Web

(* The threads of the server and Python's receive thread run when they can; *)
(* nothing makes clients or the web thread do anything.                     *)
Fairness == (\A c \in Client : WF_vars(Session(c))) /\ WF_vars(Ipc) /\ WF_vars(Recv)

Spec == Init /\ [][Next]_vars
FairSpec == Spec /\ Fairness

-----------------------------------------------------------------------------
(* Properties. *)

(* Every variable has its type; no buffer holds more than it can.           *)
TypeOK ==
  /\ devices \in Configs
  /\ connected \subseteq Client /\ listed \subseteq Client
  /\ reports \in 0..MaxReports /\ leaves \in Nat /\ web \in Nat /\ leaves + web <= MaxExtras
  /\ up \in BOOLEAN /\ crossed \in BOOLEAN /\ astray \in BOOLEAN
  /\ \A c \in Client : /\ told[c] \in Nat
                       /\ entering[c] \in Key \cup {None}
                       /\ informing[c] \in Key \cup {None}
                       /\ \A i \in DOMAIN toServer[c] : toServer[c][i].key \in Key
  /\ repository \in [Key -> Client \cup {None}]
  /\ \A m \in listing : m.key \in Key /\ m.from \in Client
  /\ Len(toPython) <= Capacity /\ Len(fromPython) <= Capacity
  /\ deviceList \in [Key \cup {Junk} -> Client \cup {None}]
  /\ sensor_data \in [Key -> [from : Client \cup {None}, n : 0..MaxReports]]
  /\ scenarios \subseteq Scenario /\ raised \in BOOLEAN
  /\ \A p \in pending : p.scenario \in Scenario /\ p.actuator \in p.scenario.actuators

Shared(k) == \E c, d \in Client : c # d /\ k \in Has(c) \cap Has(d)

(* Readings come after their device: Python has it in its list, or hears of *)
(* it before (manager.cpp:144 sends both on one connection), so that no     *)
(* scenario passes for want of the very sensor that triggers it             *)
(* (ipc.py:100); except that one garbled by the use of a freed device may   *)
(* be missing.                                                              *)
Tells(i, k) == toPython[i].type = "IPC_RESP_DEVICE_INFO" /\ toPython[i].key \in {k, Junk}
KnownBeforeData ==
  \A i \in DOMAIN toPython :
    toPython[i].type \in {"SENSOR_DATA", "PONG"}
      => LET k == toPython[i].key
         IN Known(k) \/ Known(Junk) \/ \E j \in 1..i - 1 : Tells(j, k)

(* While Python asks for a scenario's operations, every sensor of it that   *)
(* is in the list has a reading, sent by a client that has this sensor, and *)
(* the reading meets its condition (ipc.py:96): the conditions are tied by  *)
(* an and, and no later reading comes in between.                           *)
ScenarioSound ==
  \A p \in pending : \A x \in Range(p.scenario.sensors) :
    LET d == sensor_data[x.key]
    IN Known(x.key) => /\ d.from # None /\ x.key \in Has(d.from)
                       /\ Compare(d.n, x.operator, x.value)

(* An operation names a client that has the device, whatever Python knows   *)
(* of their owners and whoever registered them since (ipc.py:64, 275): the  *)
(* server looks for the session of that client only (ipc.cpp:119).          *)
NamesOwner ==
  \A i \in DOMAIN fromPython :
    LET m == fromPython[i]
    IN m.type # "IPC_REQ_ALL_DEVICE_INFO" => m.key \in Has(m.from)

(* Nothing is on its way. *)
Quiet == /\ toPython = <<>> /\ fromPython = <<>> /\ pending = {} /\ listing = {}
         /\ listed = connected
         /\ \A c \in Client : toServer[c] = <<>> /\ entering[c] = None /\ informing[c] = None

(* Then Python's list has the keys of the repository, and the same owner    *)
(* for each of them that only one client registers; of the others it keeps  *)
(* the owner it heard of first (ipc.py:66).  The server never dies of a     *)
(* freed device if no two clients have one (manager.cpp:141).  If inserts   *)
(* have crossed, Python may know devices the repository has lost, but it    *)
(* still knows all the repository has.                                      *)
QuietAgree ==
  /\ up /\ Quiet
       => \A k \in Key : /\ repository[k] # None => Known(k)
                         /\ Known(k) /\ ~crossed
                              => /\ repository[k] # None
                                 /\ ~Shared(k) => deviceList[k] = repository[k]
  /\ ~up \/ Known(Junk) => crossed \/ \E k \in Key : Shared(k)

(* A reading never replaces a later one of the same client and sensor: the  *)
(* session thread handles messages itself, one by one (session.cpp:168).    *)
DataInOrder ==
  [][\A k \in Key : sensor_data'[k].from = sensor_data[k].from
                      => sensor_data'[k].n >= sensor_data[k].n]_vars

(* Both buffers between the server and Python are full, and each waits for  *)
(* the other to read (ipc.cpp:114, ipc.py:246).                             *)
Clogged == Full(toPython) /\ Full(fromPython) /\ listing # {} /\ pending # {}

(* The IPC thread is lost, or will be: a message of Python's ends too soon. *)
Uneven == astray \/ \E i \in DOMAIN fromPython : fromPython[i].type = "UNEVEN"

(* No other circle of waiting threads is possible: while anything is on its *)
(* way, a session thread, the IPC thread or Python's receive thread can go  *)
(* on, with room for what it writes, however small the buffers are; unless  *)
(* the receive thread was ended by a value that is no number (ipc.py:105,   *)
(* 290, 300), or an operation was sent short (ipc.py:290, 300, 307), after  *)
(* which the IPC thread may wait for the rest for ever.                     *)
Room == ~Full(toPython)
SessionGoesOn(c) ==
  \/ entering[c] # None
  \/ informing[c] # None /\ Room
  \/ Got(c, "REGISTER_DEVICE") /\ Idle(c)
  \/ \E type \in {"SENSOR_DATA", "PONG"} :
       Got(c, type) /\ Idle(c) /\ (Room \/ repository[Head(toServer[c]).key] = None)
  \/ Idle(c) /\ c \in listed \ connected /\ toServer[c] = <<>>
IpcGoesOn == \/ \E type \in {"IPC_REQ_ALL_DEVICE_INFO", "REQ_ACTUATOR_OPERATION"} : Asked(type)
             \/ listing # {} /\ Room
RecvGoesOn == \/ \E type \in {"IPC_RESP_DEVICE_INFO", "SENSOR_DATA", "PONG"} : Receiving(type)
              \/ pending # {} /\ ~Full(fromPython)
OnlyClogs == up /\ ~raised /\ ~Uneven => \/ Quiet \/ Clogged
                                        \/ IpcGoesOn \/ RecvGoesOn \/ \E c \in Client : SessionGoesOn(c)

(* Whatever is sent is worked off, however small the buffers are, unless    *)
(* Python's receive thread was ended by a value that is no number, or an    *)
(* operation was sent short.                                                *)
Drains == []<>(Quiet \/ Clogged \/ raised \/ Uneven \/ ~up)
=============================================================================
