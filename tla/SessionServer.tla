---------------------------- MODULE SessionServer ----------------------------
(****************************************************************************)
(* The core of the server: the accept loop of the main thread               *)
(* (Manager::start_listen), the Session object and receive thread of each   *)
(* IoT client, the one IPC object and thread that talks to the Python web   *)
(* GUI, the list that maps client IDs to sessions, and the descriptors all  *)
(* of them read, write and close by number.                                 *)
(*                                                                          *)
(* A connection and the Session (or IPC) object that accepted it are one    *)
(* element of Conn.  A message is read as a whole; a send is one write.     *)
(* A socket buffer never fills.  std::vector's own operations are atomic.   *)
(****************************************************************************)
EXTENDS Naturals, Sequences, FiniteSets

CONSTANTS Conn,         \* the connections made to the server's port
          Python,       \* the one the Python web GUI makes
          ClientId,     \* the CLIENT_IDs of IoT clients
          Fd,           \* the descriptors accept() can return
          Backlog,      \* connections the listening socket queues
          MaxRequests,  \* bound: messages peers send after registration
          LogFiles,     \* free descriptors log.txt may hold at an accept()
          None          \* no connection, no descriptor, no ID

ASSUME PythonAssumption == Python \in Conn
ASSUME FdAssumption == Fd \subseteq Nat
ASSUME NoneAssumption == None \notin Conn \cup ClientId \cup Fd

IotConn == Conn \ {Python}

VARIABLES
  up,            \* the server process lives
  peer,          \* the other end of each connection: "away", "open", "gone"
  hello,         \* the ID a client sent in REGISTER_CLIENT, once it did
  inbox,         \* what the peer wrote and the server has not read
  wire,          \* what the server wrote to the connection
  requests,      \* messages counted against MaxRequests
  backlog,       \* connections accept() has not returned yet
  ipc,           \* the connection ipc_ accepted
  stage,         \* where the object's thread, or the main thread, stands
  clnt_sock,     \* Session::clnt_sock, kept after the descriptor is closed
  reading,       \* the connection a blocked read() holds
  client_id,     \* Session::client_id_
  registered,    \* Session::registered
  session_list,  \* Manager::session_list_
  owner,         \* the connection each descriptor refers to
  devices,       \* the client IDs that own a device of the repository
  operation,     \* the ID and Session* IPC::handle_message looked up
  listing        \* the owners of devices IPC::handle_message still lists

peerVars == <<peer, hello, requests>>
listVars == <<client_id, registered, session_list>>
ipcVars  == <<ipc, devices, operation, listing>>
vars == <<up, peer, hello, inbox, wire, requests, backlog, ipc, stage, clnt_sock,
          reading, client_id, registered, session_list, owner, devices,
          operation, listing>>

(* The stages in which the main thread has the session in its hands. *)
MainStages == {"init", "greeting", "refusing", "rejected"}
Stages == MainStages \cup
          {"unborn",                               \* not accepted yet
           "serving",                              \* in the loop of receive()
           "answering", "informing",               \* Manager::handle_message
           "operating", "listing",                 \* IPC::handle_message
           "returned", "unlisting", "dead",        \* ~Session()
           "closed"}                               \* IPC::receive returned

(* What peers send.  Only the ID in REGISTER_CLIENT and the one Python asks *)
(* an operation of are used.                                                *)
Request == [type : {"REGISTER_CLIENT", "REQ_ACTUATOR_OPERATION"}, id : ClientId]
      \cup [type : {"REGISTER_DEVICE", "IPC_REQ_ALL_DEVICE_INFO"}, id : {None}]

(* What the server sends.  The address in the header is empty in an answer  *)
(* about the client, and that of a device otherwise; id is the session's or *)
(* the device's client ID.  DEVICE_INFO is IPC_RESP_DEVICE_INFO.            *)
AboutClient(type, i) == [type |-> type, about |-> "client", id |-> i]
AboutDevice(type, i) == [type |-> type, about |-> "device", id |-> i]
Reply == [type : {"REGISTER_DONE", "REGISTER_FAILED", "DEVICE_INFO",
                  "REQ_ACTUATOR_OPERATION"}, about : {"client", "device"}, id : ClientId]

(* What IPC::handle_message holds while no operation is under way. *)
NoOperation == [id |-> None, session |-> None]

Init == /\ up = TRUE
        /\ peer = [c \in Conn |-> "away"]
        /\ hello = [c \in Conn |-> None]
        /\ inbox = [c \in Conn |-> <<>>]
        /\ wire = [c \in Conn |-> <<>>]
        /\ requests = 0
        /\ backlog = <<>>
        /\ ipc = None
        /\ stage = [c \in Conn |-> "unborn"]
        /\ clnt_sock = [c \in Conn |-> None]
        /\ reading = [c \in Conn |-> None]
        /\ client_id = [c \in Conn |-> None]
        /\ registered = [c \in Conn |-> FALSE]
        /\ session_list = {}
        /\ owner = [f \in Fd |-> None]
        /\ devices = {}
        /\ operation = NoOperation
        /\ listing = {}

-----------------------------------------------------------------------------
(* The system calls the threads share. *)

Goto(c, st) == stage' = [stage EXCEPT ![c] = st]

(* accept() takes the lowest free descriptor, but another thread's Logger   *)
(* may hold log.txt open on the lowest one at that moment; Logger's mutex   *)
(* allows one at a time.                                                    *)
FreeFd == {f \in Fd : owner[f] = None}
Open(c, f) == /\ f \in FreeFd
              /\ Cardinality({g \in FreeFd : g < f}) <= LogFiles
              /\ owner' = [owner EXCEPT ![f] = c]
              /\ clnt_sock' = [clnt_sock EXCEPT ![c] = f]

(* close() acts on whatever the number refers to now. *)
Close(f) == owner' = [owner EXCEPT ![f] = None]

(* The writes of one send(): lost on a closed descriptor; a peer that has   *)
(* gone answers the first of them with a reset and the next one raises      *)
(* SIGPIPE, which nothing handles, unless they all precede the reset.       *)
Write(f, m) ==
  \/ /\ owner[f] = None
     /\ UNCHANGED <<wire, up>>
  \/ /\ owner[f] # None /\ peer[owner[f]] = "open"
     /\ wire' = [wire EXCEPT ![owner[f]] = Append(@, m)]
     /\ UNCHANGED up
  \/ /\ owner[f] # None /\ peer[owner[f]] = "gone"
     /\ up' \in BOOLEAN
     /\ UNCHANGED wire

Put(c, m) == inbox' = [inbox EXCEPT ![c] = Append(@, m)]
Take(c)   == inbox' = [inbox EXCEPT ![c] = Tail(@)]

(* The entries of the session list with this ID. *)
Entries(i) == {e \in session_list : e.id = i}

-----------------------------------------------------------------------------
(* The peers. *)

Connect(c) == /\ up /\ peer[c] = "away" /\ Len(backlog) < Backlog
              /\ peer' = [peer EXCEPT ![c] = "open"]
              /\ backlog' = Append(backlog, c)
              /\ UNCHANGED <<up, hello, inbox, wire, requests, ipcVars, stage, clnt_sock,
                             reading, listVars, owner>>

(* client register_init_info: the first thing an IoT client sends. *)
Hello(c) == /\ up /\ c \in IotConn /\ peer[c] = "open" /\ hello[c] = None
            /\ \E i \in ClientId :
                 /\ hello' = [hello EXCEPT ![c] = i]
                 /\ Put(c, [type |-> "REGISTER_CLIENT", id |-> i])
            /\ UNCHANGED <<up, peer, wire, requests, backlog, ipcVars, stage, clnt_sock,
                           reading, listVars, owner>>

(* client register_device: sent once the first message from the server was  *)
(* a REGISTER_DONE.  register_init_info looks at the type alone: it takes a *)
(* device's for its own.                                                    *)
AddDevice(c) == /\ up /\ c \in IotConn /\ peer[c] = "open" /\ requests < MaxRequests
                /\ hello[c] # None /\ wire[c] # <<>> /\ Head(wire[c]).type = "REGISTER_DONE"
                /\ Put(c, [type |-> "REGISTER_DEVICE", id |-> None])
                /\ requests' = requests + 1
                /\ UNCHANGED <<up, peer, hello, wire, backlog, ipcVars, stage, clnt_sock,
                               reading, listVars, owner>>

(* The owners of the devices in Python's device list. *)
Known == {wire[Python][k].id : k \in {j \in DOMAIN wire[Python] :
                                        wire[Python][j].type = "DEVICE_INFO"}}

(* ipc.py set_actuator_operation and get_all_device_info. *)
PythonSends(m) == /\ up /\ peer[Python] = "open" /\ requests < MaxRequests
                  /\ Put(Python, m)
                  /\ requests' = requests + 1
                  /\ UNCHANGED <<up, peer, hello, wire, backlog, ipcVars, stage,
                                 clnt_sock, reading, listVars, owner>>

(* The process at the other end exits or dies. *)
Leave(c) == /\ up /\ peer[c] = "open"
            /\ peer' = [peer EXCEPT ![c] = "gone"]
            /\ UNCHANGED <<up, hello, inbox, wire, requests, backlog, ipcVars, stage,
                           clnt_sock, reading, listVars, owner>>

PeerNext == \/ \E c \in Conn : Connect(c) \/ Hello(c) \/ AddDevice(c) \/ Leave(c)
            \/ \E i \in Known : PythonSends([type |-> "REQ_ACTUATOR_OPERATION", id |-> i])
            \/ PythonSends([type |-> "IPC_REQ_ALL_DEVICE_INFO", id |-> None])

-----------------------------------------------------------------------------
(* The main thread. *)

(* IPC::accept_client: the first connection, whoever makes it. *)
AcceptIpc(c) == /\ up /\ ipc = None /\ backlog # <<>> /\ c = Head(backlog)
                /\ \E f \in Fd : Open(c, f)
                /\ backlog' = Tail(backlog)
                /\ ipc' = c
                /\ Goto(c, "serving")
                /\ UNCHANGED <<up, peerVars, inbox, wire, devices, operation, listing,
                               reading, listVars>>

(* Mutant: every accepted connection is served beside the others. *)
AcceptConcurrently(c) ==
  /\ up /\ ipc # None /\ backlog # <<>> /\ c = Head(backlog)
  /\ \E f \in Fd : Open(c, f)
  /\ backlog' = Tail(backlog)
  /\ Goto(c, "init")
  /\ UNCHANGED <<up, peerVars, inbox, wire, ipcVars, reading, listVars>>

(* Session::accept_client: nothing is in the main thread's hands. *)
Accept(c) == /\ up /\ ipc # None /\ \A d \in Conn : stage[d] \notin MainStages
             /\ backlog # <<>> /\ c = Head(backlog)
             /\ \E f \in Fd : Open(c, f)
             /\ backlog' = Tail(backlog)
             /\ Goto(c, "init")
             /\ UNCHANGED <<up, peerVars, inbox, wire, ipcVars, reading, listVars>>

(* Mutant: the end of the stream is not told from data. *)
InitLostIgnoringEof(c) ==
  /\ up /\ stage[c] = "init" /\ owner[clnt_sock[c]] = None
  /\ Close(clnt_sock[c])
  /\ Goto(c, "rejected")
  /\ UNCHANGED <<up, peerVars, inbox, wire, backlog, ipcVars, clnt_sock, reading,
                 listVars>>

(* receive_init_info: its last read returned 0 or -1. *)
InitLost(c) == /\ up /\ stage[c] = "init"
               /\ LET o == owner[clnt_sock[c]] IN o # None => peer[o] = "gone"
               /\ Close(clnt_sock[c])
               /\ Goto(c, "rejected")
               /\ UNCHANGED <<up, peerVars, inbox, wire, backlog, ipcVars, clnt_sock,
                              reading, listVars>>

(* receive_init_info: the message read first is not REGISTER_CLIENT. *)
InitOther(c) == /\ up /\ stage[c] = "init"
                /\ LET o == owner[clnt_sock[c]]
                   IN /\ o # None /\ inbox[o] # <<>>
                      /\ Head(inbox[o]).type # "REGISTER_CLIENT"
                      /\ Take(o)
                /\ Goto(c, "rejected")
                /\ UNCHANGED <<up, peerVars, wire, backlog, ipcVars, clnt_sock, reading,
                               listVars, owner>>

(* Mutant: the search for a duplicate is left out. *)
RegistUnchecked(c, i) ==
  /\ client_id' = [client_id EXCEPT ![c] = i]
  /\ session_list' = session_list \cup {[id |-> i, session |-> c]}
  /\ registered' = [registered EXCEPT ![c] = TRUE]
  /\ Goto(c, "greeting")

(* Mutant: `registered` is set before the answer of regist_session. *)
RegistFlagFirst(c, i) ==
  /\ client_id' = [client_id EXCEPT ![c] = i]
  /\ registered' = [registered EXCEPT ![c] = TRUE]
  /\ \/ /\ Entries(i) = {}
        /\ session_list' = session_list \cup {[id |-> i, session |-> c]}
        /\ Goto(c, "greeting")
     \/ /\ Entries(i) # {}
        /\ Goto(c, "refusing")
        /\ UNCHANGED session_list

(* Mutant: the answer of regist_session is not looked at. *)
RegistIgnored(c, i) ==
  /\ client_id' = [client_id EXCEPT ![c] = i]
  /\ Goto(c, "greeting")
  /\ \/ /\ Entries(i) = {}
        /\ session_list' = session_list \cup {[id |-> i, session |-> c]}
        /\ registered' = [registered EXCEPT ![c] = TRUE]
     \/ /\ Entries(i) # {}
        /\ UNCHANGED <<session_list, registered>>

(* Manager::regist_session *)
Regist(c, i) ==
  /\ client_id' = [client_id EXCEPT ![c] = i]
  /\ \/ /\ Entries(i) = {}
        /\ session_list' = session_list \cup {[id |-> i, session |-> c]}
        /\ registered' = [registered EXCEPT ![c] = TRUE]
        /\ Goto(c, "greeting")
     \/ /\ Entries(i) # {}
        /\ Goto(c, "refusing")
        /\ UNCHANGED <<session_list, registered>>

(* receive_init_info: REGISTER_CLIENT is read and the session is listed, or *)
(* refused when its ID is in the list.                                      *)
InitRegister(c) == /\ up /\ stage[c] = "init"
                   /\ LET o == owner[clnt_sock[c]]
                      IN /\ o # None /\ inbox[o] # <<>>
                         /\ Head(inbox[o]).type = "REGISTER_CLIENT"
                         /\ Take(o)
                         /\ Regist(c, Head(inbox[o]).id)
                   /\ UNCHANGED <<up, peerVars, wire, backlog, ipcVars, clnt_sock,
                                  reading, owner>>

(* REGISTER_DONE is sent, and the session's receive thread starts. *)
SendDone(c) == /\ up /\ stage[c] = "greeting"
               /\ Write(clnt_sock[c], AboutClient("REGISTER_DONE", client_id[c]))
               /\ Goto(c, "serving")
               /\ UNCHANGED <<peerVars, inbox, backlog, ipcVars, clnt_sock, reading,
                              listVars, owner>>

SendFailed(c) == /\ up /\ stage[c] = "refusing"
                 /\ Write(clnt_sock[c], AboutClient("REGISTER_FAILED", client_id[c]))
                 /\ Goto(c, "rejected")
                 /\ UNCHANGED <<peerVars, inbox, backlog, ipcVars, clnt_sock, reading,
                                listVars, owner>>

(* Mutant: the destructor does not ask `registered`. *)
DestroyUnguarded(c) ==
  /\ Close(clnt_sock[c])
  /\ Goto(c, "unlisting")
  /\ UNCHANGED <<up, peerVars, inbox, wire, backlog, ipcVars, clnt_sock, reading,
                 listVars>>

(* Mutant: `registered` is never set, so no session is unlisted. *)
DestroyOnly(c) ==
  /\ Close(clnt_sock[c])
  /\ Goto(c, "dead")
  /\ UNCHANGED <<up, peerVars, inbox, wire, backlog, ipcVars, clnt_sock, reading,
                 listVars>>

(* ~Session: disconnect() closes the number again, whatever it is by now;   *)
(* only a registered session goes on to unregist_session.                   *)
Destroy(c) == /\ Close(clnt_sock[c])
              /\ Goto(c, IF registered[c] THEN "unlisting" ELSE "dead")
              /\ UNCHANGED <<up, peerVars, inbox, wire, backlog, ipcVars, clnt_sock,
                             reading, listVars>>

DropRejected(c) == up /\ stage[c] = "rejected" /\ Destroy(c)

Main == \E c \in Conn : \/ AcceptIpc(c) \/ Accept(c)
                        \/ InitLost(c) \/ InitOther(c) \/ InitRegister(c)
                        \/ SendDone(c) \/ SendFailed(c) \/ DropRejected(c)

-----------------------------------------------------------------------------
(* The receive threads, of the sessions and of ipc_. *)

(* read() blocks on the file the descriptor refers to now, and keeps it. *)
Read(c) == /\ up /\ stage[c] = "serving" /\ reading[c] = None
           /\ owner[clnt_sock[c]] # None
           /\ reading' = [reading EXCEPT ![c] = owner[clnt_sock[c]]]
           /\ UNCHANGED <<up, peerVars, inbox, wire, backlog, ipcVars, stage, clnt_sock,
                          listVars, owner>>

(* Mutant: IPC::receive does not return after its close(). *)
HangUpWithoutReturn(c) ==
  /\ up /\ stage[c] = "serving"
  /\ \/ reading[c] # None /\ peer[reading[c]] = "gone"
     \/ reading[c] = None /\ owner[clnt_sock[c]] = None
  /\ Close(clnt_sock[c])
  /\ reading' = [reading EXCEPT ![c] = None]
  /\ Goto(c, IF c = ipc THEN "serving" ELSE "returned")
  /\ UNCHANGED <<up, peerVars, inbox, wire, backlog, ipcVars, clnt_sock, listVars>>

(* read() returns 0 or -1: the peer has gone, or the descriptor is closed.  *)
HangUp(c) == /\ up /\ stage[c] = "serving"
             /\ \/ reading[c] # None /\ peer[reading[c]] = "gone"
                \/ reading[c] = None /\ owner[clnt_sock[c]] = None
             /\ Close(clnt_sock[c])
             /\ reading' = [reading EXCEPT ![c] = None]
             /\ Goto(c, IF c = ipc THEN "closed" ELSE "returned")
             /\ UNCHANGED <<up, peerVars, inbox, wire, backlog, ipcVars, clnt_sock,
                            listVars>>

(* A whole message has been read into the thread's buffer. *)
Got(c) == /\ up /\ stage[c] = "serving"
          /\ reading[c] # None /\ inbox[reading[c]] # <<>>
          /\ Take(reading[c])
          /\ reading' = [reading EXCEPT ![c] = None]
          /\ UNCHANGED <<up, peerVars, wire, backlog, ipc, clnt_sock, listVars, owner>>
Message(c) == Head(inbox[reading[c]])

(* Manager::handle_message: REGISTER_DEVICE enters the device in the tree   *)
(* under the session's ID; the messages of a new client are ignored.        *)
HandleDevice(c) == /\ Got(c) /\ c # ipc
                   /\ Message(c).type = "REGISTER_DEVICE"
                   /\ devices' = devices \cup {client_id[c]}
                   /\ Goto(c, "answering")
                   /\ UNCHANGED <<operation, listing>>

HandleNothing(c) == /\ Got(c)
                    /\ IF c = ipc
                       THEN Message(c).type \in {"REGISTER_CLIENT", "REGISTER_DEVICE"}
                       ELSE Message(c).type # "REGISTER_DEVICE"
                    /\ UNCHANGED <<stage, devices, operation, listing>>

AnswerDevice(c) == /\ up /\ stage[c] = "answering"
                   /\ Write(clnt_sock[c], AboutDevice("REGISTER_DONE", client_id[c]))
                   /\ Goto(c, "informing")
                   /\ UNCHANGED <<peerVars, inbox, backlog, ipcVars, clnt_sock, reading,
                                  listVars, owner>>

(* "Send to Python": through ipc_, even after IPC::receive has closed it. *)
InformPython(c) == /\ up /\ stage[c] = "informing"
                   /\ Write(clnt_sock[ipc], AboutDevice("DEVICE_INFO", client_id[c]))
                   /\ Goto(c, "serving")
                   /\ UNCHANGED <<peerVars, inbox, backlog, ipcVars, clnt_sock, reading,
                                  listVars, owner>>

(* receive() has returned and the thread drops the last reference. *)
DropReturned(c) == up /\ stage[c] = "returned" /\ Destroy(c)

(* Manager::unregist_session erases the first entry with the session's ID. *)
Unregist(c) == /\ up /\ stage[c] = "unlisting"
               /\ session_list' \in IF Entries(client_id[c]) = {} THEN {session_list}
                                    ELSE {session_list \ {e} : e \in Entries(client_id[c])}
               /\ Goto(c, "dead")
               /\ UNCHANGED <<up, peerVars, inbox, wire, backlog, ipcVars, clnt_sock,
                              reading, client_id, registered, owner>>

(* Mutant: nullptr from get_session_by_id is used like a session. *)
LookUpUnchecked(c) ==
  /\ Got(c) /\ c = ipc
  /\ Message(c).type = "REQ_ACTUATOR_OPERATION"
  /\ operation' \in IF Entries(Message(c).id) = {} THEN {NoOperation}
                    ELSE Entries(Message(c).id)
  /\ Goto(c, "operating")
  /\ UNCHANGED <<devices, listing>>

(* IPC::handle_message: the session of the ID is looked up, if there is one. *)
LookUp(c) == /\ Got(c) /\ c = ipc
             /\ Message(c).type = "REQ_ACTUATOR_OPERATION"
             /\ \/ /\ Entries(Message(c).id) = {}
                   /\ UNCHANGED <<stage, operation>>
                \/ /\ operation' \in Entries(Message(c).id)
                   /\ Goto(c, "operating")
             /\ UNCHANGED <<devices, listing>>

(* The Session* is used without a lock or a reference: its object may be    *)
(* freed by now, and then the server dies or the stale object is used.      *)
(* Nothing is sent when the device is not found (DevTree).                  *)
Operate(c) == /\ up /\ stage[c] = "operating"
              /\ LET s == operation.session
                 IN \/ Write(clnt_sock[s],
                          AboutDevice("REQ_ACTUATOR_OPERATION", operation.id))
                    \/ stage[s] = "dead" /\ up' = FALSE /\ UNCHANGED wire
                    \/ UNCHANGED <<wire, up>>
              /\ operation' = NoOperation
              /\ Goto(c, "serving")
              /\ UNCHANGED <<peerVars, inbox, backlog, ipc, devices, listing, clnt_sock,
                             reading, listVars, owner>>

(* IPC::handle_message: all devices are listed, one message each. *)
ListDevices(c) == /\ Got(c) /\ c = ipc
                  /\ Message(c).type = "IPC_REQ_ALL_DEVICE_INFO"
                  /\ listing' = devices
                  /\ Goto(c, "listing")
                  /\ UNCHANGED <<devices, operation>>

ListOne(c) == /\ up /\ stage[c] = "listing"
              /\ \E i \in listing : /\ Write(clnt_sock[c], AboutDevice("DEVICE_INFO", i))
                                    /\ listing' = listing \ {i}
              /\ UNCHANGED <<peerVars, inbox, backlog, ipc, devices, operation, stage,
                             clnt_sock, reading, listVars, owner>>

ListDone(c) == /\ up /\ stage[c] = "listing" /\ listing = {}
               /\ Goto(c, "serving")
               /\ UNCHANGED <<up, peerVars, inbox, wire, backlog, ipcVars, clnt_sock,
                              reading, listVars, owner>>

Thread(c) == \/ Read(c) \/ HangUp(c) \/ HandleNothing(c)
             \/ HandleDevice(c) \/ AnswerDevice(c) \/ InformPython(c)
             \/ DropReturned(c) \/ Unregist(c)
             \/ LookUp(c) \/ Operate(c)
             \/ ListDevices(c) \/ ListOne(c) \/ ListDone(c)

Next == PeerNext \/ Main \/ \E c \in Conn : Thread(c)

(* The scheduler runs every thread that can run; a client that connected    *)
(* sends REGISTER_CLIENT next, unless its process ends first.               *)
Fairness == /\ WF_vars(Main)
            /\ \A c \in Conn : WF_vars(Thread(c))
            /\ \A c \in IotConn : WF_vars(Hello(c) \/ (hello[c] = None /\ Leave(c)))

Spec == Init /\ [][Next]_vars
FairSpec == Spec /\ Fairness

-----------------------------------------------------------------------------
(* Properties. *)

(* Every variable has its type; a session in use has a descriptor number,   *)
(* and an operation under way has the session that was looked up.           *)
TypeOK == /\ up \in BOOLEAN
          /\ peer \in [Conn -> {"away", "open", "gone"}]
          /\ hello \in [Conn -> ClientId \cup {None}]
          /\ inbox \in [Conn -> Seq(Request)]
          /\ wire \in [Conn -> Seq(Reply)]
          /\ requests \in Nat
          /\ backlog \in Seq(Conn)
          /\ ipc \in Conn \cup {None}
          /\ stage \in [Conn -> Stages]
          /\ clnt_sock \in [Conn -> Fd \cup {None}]
          /\ \A c \in Conn : stage[c] # "unborn" => clnt_sock[c] \in Fd
          /\ reading \in [Conn -> Conn \cup {None}]
          /\ client_id \in [Conn -> ClientId \cup {None}]
          /\ registered \in [Conn -> BOOLEAN]
          /\ session_list \subseteq [id : ClientId, session : Conn]
          /\ owner \in [Fd -> Conn \cup {None}]
          /\ devices \subseteq ClientId
          /\ operation \in [id : ClientId, session : Conn] \cup {NoOperation}
          /\ \A c \in Conn : stage[c] = "operating" => operation # NoOperation
          /\ listing \subseteq ClientId

(* The sessions Manager::session_list_ has to name: registered, and not yet *)
(* past unregist_session.                                                   *)
Members == {s \in Conn : registered[s] /\ stage[s] # "dead"}

(* The list names exactly the members, each under its own ID: a refused     *)
(* client's destructor takes nothing off it (session.cpp:14), a client that *)
(* left takes its own entry off and no other.                               *)
ListExact == session_list = {[id |-> client_id[s], session |-> s] : s \in Members}

(* No two members share an ID (manager.cpp:95-98), so the first entry with  *)
(* an ID, which look-up and removal stop at, is the only one.               *)
UniqueIds == \A s, t \in Members : client_id[s] = client_id[t] => s = t

(* While IPC::receive has not closed it, ipc_'s descriptor refers to ipc_'s *)
(* connection: no session's second close(), at whatever moment, hits it.    *)
IpcKeepsItsSocket ==
  ipc # None /\ stage[ipc] # "closed" => owner[clnt_sock[ipc]] = ipc

(* The answers of the main thread on a connection (session.cpp:87, 93): at  *)
(* most one, to the client that asked and for the ID it asked,              *)
(* REGISTER_DONE only if its session was listed and REGISTER_FAILED only if *)
(* it was not; descriptors other threads close and re-use never carry one   *)
(* to another client.                                                       *)
Answers(c) == {k \in DOMAIN wire[c] :
                 /\ wire[c][k].type \in {"REGISTER_DONE", "REGISTER_FAILED"}
                 /\ wire[c][k].about = "client"}
RegistrationAnswered ==
  \A c \in Conn : /\ Cardinality(Answers(c)) <= 1
                  /\ \A k \in Answers(c) :
                       /\ wire[c][k].id = hello[c]
                       /\ registered[c] <=> wire[c][k].type = "REGISTER_DONE"

(* A client that is not registered takes a REGISTER_DONE for its own only   *)
(* through three sessions of one descriptor number: one closed the number   *)
(* twice (session.cpp:117, 230), the second time when it was another's,     *)
(* whose answer to a device (manager.cpp:141) reaches the third.            *)
GaveAway == {"returned", "unlisting", "dead", "closed"}
SharedNumber(c) == \E d, e \in Conn \ {c} :
                     /\ d # e /\ clnt_sock[d] = clnt_sock[c] /\ clnt_sock[e] = clnt_sock[c]
                     /\ registered[d] /\ stage[e] \in GaveAway
OwnRegistration ==
  \A c \in Conn : \A k \in DOMAIN wire[c] :
    wire[c][k].type = "REGISTER_DONE" => registered[c] \/ SharedNumber(c)

(* The list implements the directory: an ID is claimed when its entry is    *)
(* appended and released when the entry's own session erases it.            *)
SessionIn(entries) == (CHOOSE e \in entries : TRUE).session
ListHolder   == [i \in ClientId |-> IF Entries(i) = {} THEN None
                                    ELSE SessionIn(Entries(i))]
ListStanding == [s \in Conn |-> IF ~registered[s] THEN "new"
                                ELSE IF stage[s] = "dead" THEN "past" ELSE "member"]
Directory == INSTANCE ClientDirectory WITH
  Session <- Conn, NoSession <- None, holder <- ListHolder, standing <- ListStanding
DirectorySpec == Directory!DirSpec

(* A thread reads a connection that is not its own: another session's       *)
(* second close() gave its descriptor number away (session.cpp:230).        *)
Astray(c) == reading[c] \notin {c, None}

(* With Python at the other end of ipc_, a client that sent REGISTER_CLIENT *)
(* is answered or has its connection dropped: the accept loop gets to it,   *)
(* though it serves one connection at a time and blocks on each.  A thread  *)
(* that has gone astray may take the message the loop waits for.            *)
Answered ==
  \A c \in IotConn :
    hello[c] # None /\ ipc = Python
      ~> \/ Answers(c) # {} \/ stage[c] = "dead" \/ peer[c] = "gone" \/ ~up
         \/ \E d \in Conn : Astray(d)

(* When a client has gone its ID becomes free, unless the session's thread  *)
(* has gone astray.                                                         *)
Listed(c) == \E e \in session_list : e.session = c
GoneForgotten ==
  \A c \in Conn : Listed(c) /\ peer[c] = "gone" ~> ~Listed(c) \/ ~up \/ Astray(c)

-----------------------------------------------------------------------------
(* What comments of the code say, and the code does not do. *)

(* session.cpp:175: send() transmits to the session's client. *)
ToItsClient ==
  \A c \in IotConn : \A k \in DOMAIN wire[c] :
    wire[c][k].type = "REQ_ACTUATOR_OPERATION" => wire[c][k].id = client_id[c]
=============================================================================
